---- MODULE Spec2Model ----
(***************************************************************************)
(* A model of the etherz asynchronous core: the poll wrapper (poll.hpp),   *)
(* the single-threaded EventLoop (event_loop.hpp), the callback-based      *)
(* AsyncSocket (async_socket.hpp) and the TlsSocket (tls_socket.hpp),      *)
(* together with the descriptor ownership of Socket (socket.hpp), the      *)
(* WebSocket frame codec (websocket.hpp) and HttpHeaders (http.hpp).       *)
(*                                                                         *)
(* A callback handed to the loop is a value tagged with a fresh id, so     *)
(* two std::function objects installed by two calls are told apart.  User  *)
(* code (the main program between loop calls, and the body of every user   *)
(* callback) is nondeterministic: it may call add, remove, stop and the    *)
(* async_* operations in any order.                                        *)
(***************************************************************************)
EXTENDS Integers, Sequences, FiniteSets, Bags, TLC

\* ------------------------------------------------------------ bounds
\* The number of std::function objects user code hands to the loop or to a socket.
MaxCallbacks == 3

\* The descriptors of the sockets the program uses.
Fds == {1, 2}

\* ------------------------------------------------------------ poll.hpp
invalid_socket == -1

\* PollEvent is a bit mask; a mask is modelled as the set of its flags.
None == {}
ReadReady == {"ReadReady"}
WriteReady == {"WriteReady"}
Error == {"Error"}
HangUp == {"HangUp"}

has_event(flags, test) == (flags \cap test) # {}

to_native_events(ev) ==
    (IF has_event(ev, ReadReady) THEN {"POLLIN"} ELSE {})
        \cup (IF has_event(ev, WriteReady) THEN {"POLLOUT"} ELSE {})

from_native_events(revents) ==
    (IF "POLLIN" \in revents THEN ReadReady ELSE None)
        \cup (IF "POLLOUT" \in revents THEN WriteReady ELSE None)
        \cup (IF "POLLERR" \in revents THEN Error ELSE None)
        \cup (IF "POLLHUP" \in revents THEN HangUp ELSE None)

\* What the operating system's wait call may report for one descriptor whose
\* requested native events are `events`: readable/writable only when asked
\* for, error conditions regardless.
NativeRevents(events) ==
    { r \in { {}, {"POLLIN"}, {"POLLOUT"}, {"POLLERR"}, {"POLLNVAL"} } :
        (r \cap {"POLLIN", "POLLOUT"}) \subseteq events }

\* The outcomes of the wait call on the native array built from `entries`:
\* a failure (-1, revents untouched), or the revents of each descriptor and
\* the number of descriptors whose revents is not zero.
WaitOutcomes(entries) ==
    { [result |-> -1, revents |-> [k \in 1..Len(entries) |-> {}]] }
    \cup
    { [result |-> Cardinality({k \in 1..Len(entries) : rv[k] # {}}), revents |-> rv] :
        rv \in { f \in [1..Len(entries) -> SUBSET {"POLLIN", "POLLOUT", "POLLERR", "POLLNVAL"}] :
                   \A k \in 1..Len(entries) :
                       f[k] \in NativeRevents(to_native_events(entries[k].requested)) } }

\* poll(entries, timeout): the entries after the call, the value returned and
\* whether the wait call was made.
poll(entries, os) ==
    IF entries = <<>>
    THEN [entries |-> entries, result |-> 0, waited |-> FALSE]
    ELSE [entries |-> IF os.result > 0
                      THEN [k \in 1..Len(entries) |->
                              [entries[k] EXCEPT !.returned = from_native_events(os.revents[k])]]
                      ELSE entries,
          result |-> os.result,
          waited |-> TRUE]

\* ------------------------------------------------------------ event_loop.hpp
Registration(fd, interest, callback) ==
    [fd |-> fd, interest |-> interest, callback |-> callback]

RegFds(regs) == { regs[k].fd : k \in 1..Len(regs) }
RegIds(regs) == { regs[k].callback.id : k \in 1..Len(regs) }
\* The callbacks registered for a descriptor, as history records.
Displaced(regs, fd, cause) ==
    { [id |-> regs[k].callback.id, fd |-> fd, cause |-> cause] :
        k \in { j \in 1..Len(regs) : regs[j].fd = fd } }

\* EventLoop::add, with the bug of always appending.
add_always_appends(regs, fd, interest, callback) ==
    Append(regs, Registration(fd, interest, callback))

\* EventLoop::add, with the bug of updating the interest only.
add_keeps_callback(regs, fd, interest, callback) ==
    IF \E k \in 1..Len(regs) : regs[k].fd = fd
    THEN LET k == CHOOSE j \in 1..Len(regs) :
                     regs[j].fd = fd /\ \A m \in 1..(j - 1) : regs[m].fd # fd
         IN  [regs EXCEPT ![k].interest = interest]
    ELSE Append(regs, Registration(fd, interest, callback))

\* EventLoop::add, with the bug of moving a replaced registration to the end.
add_moves_to_end(regs, fd, interest, callback) ==
    Append(SelectSeq(regs, LAMBDA r : r.fd # fd), Registration(fd, interest, callback))

\* EventLoop::add, with the bug of leaving a registered descriptor as it is.
add_ignores_registered(regs, fd, interest, callback) ==
    IF \E k \in 1..Len(regs) : regs[k].fd = fd
    THEN regs
    ELSE Append(regs, Registration(fd, interest, callback))

\* EventLoop::add
add(regs, fd, interest, callback) ==
    IF \E k \in 1..Len(regs) : regs[k].fd = fd
    THEN LET k == CHOOSE j \in 1..Len(regs) :
                     regs[j].fd = fd /\ \A m \in 1..(j - 1) : regs[m].fd # fd
         IN  [regs EXCEPT ![k] = Registration(fd, interest, callback)]
    ELSE Append(regs, Registration(fd, interest, callback))

\* EventLoop::remove, with the bug of erasing nothing.
remove_erases_nothing(regs, fd) == regs

\* EventLoop::remove, with the bug of erasing the last registration when no
\* registration matches (erasing at the iterator remove_if returns).
remove_erases_at_end(regs, fd) ==
    IF \E k \in 1..Len(regs) : regs[k].fd = fd
    THEN SelectSeq(regs, LAMBDA r : r.fd # fd)
    ELSE SubSeq(regs, 1, Len(regs) - 1)

\* EventLoop::remove
remove(regs, fd) == SelectSeq(regs, LAMBDA r : r.fd # fd)

\* run_once polling the first registration only.
BuildPollEntries_first_only(regs) ==
    [k \in 1..(IF regs = <<>> THEN 0 ELSE 1) |->
        [fd |-> regs[k].fd, requested |-> regs[k].interest, returned |-> None]]

\* The poll entries run_once builds from the registrations.
BuildPollEntries(regs) ==
    [k \in 1..Len(regs) |->
        [fd |-> regs[k].fd, requested |-> regs[k].interest, returned |-> None]]

\* run_once dispatching from the live registrations instead of its copy.
DispatchSource_live(snap, regs) == regs

\* The registrations run_once dispatches from: the copy taken after poll.
DispatchSource(snap, regs) == snap

\* The dispatch loop bounded by the live registrations as well.
DispatchLimit_live(src, regs) == IF Len(regs) < Len(src) THEN Len(regs) ELSE Len(src)

\* The dispatch loop's bound on the registrations side: i < snapshot.size().
DispatchLimit(src, regs) == Len(src)

\* ------------------------------------------------------------ state
VARIABLES
    registrations_,   \* EventLoop::registrations_
    poll_entries_,    \* EventLoop::poll_entries_
    running_,         \* EventLoop::running_
    pc,               \* where run_once stands: "idle", "dispatch", "returning"
    inRun,            \* run() is on the call stack
    snapshot,         \* run_once's local copy of the registrations
    i,                \* run_once's dispatch index (1-based)
    ready,            \* run_once's local: the value poll returned
    dispatched,       \* run_once's local counter
    ret,              \* the value run_once is returning (-1: none)
    lastPoll,         \* how the current run_once used the poller
    stack,            \* the user callbacks being executed, innermost last
    nextId,           \* the id the next callback object gets
    fired,            \* history: the registrations invoked by the current cycle, in order
    calls,            \* history: how often each one-shot user callback was invoked (a bag)
    added,            \* history: the descriptors add was called with
    retired,          \* history: the callbacks displaced by an add or a remove
    retiredAtStart,   \* history: `retired` when the current cycle started
    cycleFirstId,     \* history: `nextId` when the current cycle started
    stopCalled        \* history: stop() was called since run() was entered

\* The state of one TlsSocket (tls_socket.hpp).
VARIABLES
    tls_fd,           \* TlsSocket::socket_'s descriptor (invalid_socket: none)
    cred_acquired,    \* TlsSocket::cred_.acquired
    ctx_initialized,  \* TlsSocket::sec_ctx_.initialized
    handshake_done_,  \* TlsSocket::handshake_done_
    stream_sizes_,    \* TlsSocket::stream_sizes_
    tlsPc,            \* where connect stands: "idle", "handshake"
    hsStatus,         \* perform_handshake's local: the provider's last status
    total_recv,       \* perform_handshake's local: the bytes accumulated
    recv_buf,         \* perform_handshake's local: the accumulated bytes, recv_buf[0, total_recv)
    hs_peer,          \* the connect in progress: the peer's stream and the provider's ways
    hs_delivered,     \* the bytes of the peer's stream the raw recv has delivered
    hs_consumed,      \* the messages of the peer's stream the provider has processed
    hs_token_failed,  \* history: a raw send of an output token of this handshake failed
    unfed,            \* history: bytes the provider reported as extra and was not given again
    tlsCall,          \* history: the last call that returned, what it was given and gave
    schannel          \* the build: TRUE with _WIN32 (SChannel), FALSE the pass-through stub

\* The Socket objects of a program and the descriptors of its process
\* (socket.hpp).
VARIABLES
    alive,            \* the Socket objects whose lifetime has begun and not ended
    fd_,              \* Socket::fd_ of every object
    os_next,          \* the descriptor the next successful ::socket returns
    os_open,          \* the descriptors the process holds open
    os_closed         \* history: how often close_socket was called on each descriptor

\* One WebSocket frame on its way through the codec (websocket.hpp).
VARIABLES
    ws_frame,         \* the WsFrame given to ws_encode_frame
    ws_wire,          \* the bytes ws_encode_frame returned
    ws_decoded        \* the WsFrame ws_decode_frame returned for them (<<>>: not called)

\* One HttpHeaders object (http.hpp).
VARIABLES
    entries_,         \* HttpHeaders::entries_
    lastSet           \* history: the value of the last set call of every name, cases folded

\* The descriptors AsyncSocket::close has closed (async_socket.hpp).
VARIABLES
    closed_fds

loopVars == <<registrations_, poll_entries_, running_, pc, inRun, snapshot, i, ready,
              dispatched, ret, lastPoll, stack, nextId, fired, calls, added, retired,
              retiredAtStart, cycleFirstId, stopCalled>>

tlsVars == <<tls_fd, cred_acquired, ctx_initialized, handshake_done_, stream_sizes_, tlsPc,
             hsStatus, total_recv, recv_buf, hs_token_failed, hs_peer, hs_delivered, hs_consumed, unfed, tlsCall,
             schannel>>

\* The Socket objects with the descriptors of the system, the WebSocket codec's
\* frame and bytes, and the HttpHeaders object.
libVars == <<alive, fd_, os_next, os_open, os_closed, ws_frame, ws_wire, ws_decoded,
             entries_, lastSet, closed_fds>>

vars == <<loopVars, tlsVars, libVars>>

onceVars == <<poll_entries_, pc, snapshot, i, ready, dispatched, ret, lastPoll>>
cycleVars == <<fired, retiredAtStart, cycleFirstId>>

\* SecPkgContext_StreamSizes, value-initialised.
ZeroSizes == [cbHeader |-> 0, cbTrailer |-> 0]

\* The record of a call: the operation ("connecting" while connect is in its
\* handshake loop and has not returned), whether the engine was Established
\* when it was called, what the caller gave (data, the capacity of its buffer;
\* for a connect that a raw recv ended, the capacity that recv was offered),
\* what the call did (the provider's status, the bytes handed to the raw send,
\* the number of raw sends and raw recvs, the value the raw call returned, the
\* plaintext region the provider produced) and what it gave back.  For the
\* provider's input: the bytes left over by earlier calls when the call began
\* (leftover), the bytes the call handed to the provider last (fed), the bytes
\* the provider reported as extra last (extra) and the messages of the peer it
\* had processed (msgs).  For connect: what QueryContextAttributes wrote
\* (sizes; ZeroSizes when it was not called or failed).
NoCall ==
    [op |-> "none", established |-> FALSE, data |-> <<>>, cap |-> 0, status |-> "none",
     wire |-> <<>>, rawSends |-> 0, rawRecvs |-> 0, raw |-> 0, hasPlain |-> FALSE,
     plain |-> <<>>, buffer |-> <<>>, leftover |-> 0, fed |-> 0, extra |-> 0, msgs |-> 0,
     sizes |-> ZeroSizes, ret |-> 0, err |-> "None"]

\* No connect is in progress.
NoPeer == [stream |-> <<>>, greedy |-> FALSE]

\* A TlsSocket after its default constructor.
TlsInit ==
    /\ tls_fd = invalid_socket
    /\ cred_acquired = FALSE
    /\ ctx_initialized = FALSE
    /\ handshake_done_ = FALSE
    /\ stream_sizes_ = ZeroSizes
    /\ tlsPc = "idle"
    /\ hsStatus = "none"
    /\ total_recv = 0
    /\ recv_buf = <<>>
    /\ hs_token_failed = FALSE
    /\ hs_peer = NoPeer
    /\ hs_delivered = 0
    /\ hs_consumed = 0
    /\ unfed = 0
    /\ tlsCall = NoCall

LoopInit ==
    /\ registrations_ = <<>>
    /\ poll_entries_ = <<>>
    /\ running_ = FALSE
    /\ pc = "idle"
    /\ inRun = FALSE
    /\ snapshot = <<>>
    /\ i = 1
    /\ ready = 0
    /\ dispatched = 0
    /\ ret = -1
    /\ lastPoll = "not_called"
    /\ stack = <<>>
    /\ nextId = 1
    /\ fired = <<>>
    /\ calls = EmptyBag
    /\ added = {}
    /\ retired = {}
    /\ retiredAtStart = {}
    /\ cycleFirstId = 1
    /\ stopCalled = FALSE

\* The objects of the program, none constructed yet, and the descriptors
\* ::socket can return.
MaxDescriptors == 3
Objects == {"a", "b"}
Descriptors == 1..MaxDescriptors


\* A default-constructed WsFrame (websocket.hpp 56-61).
DefaultFrame ==
    [fin |-> TRUE, opcode |-> 1, masked |-> FALSE, mask_key |-> <<0, 0, 0, 0>>,
     payload |-> <<>>]

\* No Socket object exists and no descriptor is open; no frame has been
\* encoded, none decoded; the HttpHeaders is as its default constructor leaves it.
LibInit ==
    /\ alive = {}
    /\ fd_ = [o \in Objects |-> invalid_socket]
    /\ os_next = 1
    /\ os_open = {}
    /\ os_closed = [d \in Descriptors |-> 0]
    /\ ws_frame = DefaultFrame
    /\ ws_wire = <<>>
    /\ ws_decoded = <<>>
    /\ entries_ = <<>>
    /\ lastSet = <<>>
    /\ closed_fds = {}

Init == LoopInit /\ TlsInit /\ LibInit /\ schannel = TRUE

\* User code is running: the main program outside of the loop, or the body of
\* a user callback.
UserCode == stack # <<>> \/ (pc = "idle" /\ ~inRun)
MainCode == stack = <<>> /\ pc = "idle" /\ ~inRun

\* ------------------------------------------------------------ user code
\* A fresh callback object; it remembers the descriptor and the interest it
\* was handed to the loop with, and the result of the immediate attempt the
\* operation made before it went to the loop ("none": it made no attempt).
NewCallback(kind, fd, interest) ==
    [kind |-> kind, id |-> nextId, fd |-> fd, interest |-> interest, immediate |-> "none"]

\* The frame of a running user callback.  `live` and `stopped` record whether
\* the callback's registration was still installed, and whether stop() had
\* been called, when the callback was invoked; `performed` records whether the
\* caller performed the socket call (send, recv, accept) it reports on.
Frame(cb, via, args, performed) ==
    [id |-> cb.id, kind |-> cb.kind, fd |-> cb.fd, via |-> via, args |-> args,
     live |-> cb.id \in RegIds(registrations_), stopped |-> stopCalled,
     performed |-> performed]

OneShotKinds == {"connect", "send", "recv"}

\* A user callback starts running.
Invoke(frame) ==
    /\ stack' = Append(stack, frame)
    /\ calls' = IF frame.kind \in OneShotKinds THEN calls (+) SetToBag({frame.id}) ELSE calls

\* loop.add(fd, interest, callback) called by user code; the callback is a
\* callable ("event") or an empty std::function ("null").
Add(fd, interest, kind) ==
    /\ UserCode
    /\ nextId <= MaxCallbacks
    /\ registrations_' = add(registrations_, fd, interest, NewCallback(kind, fd, interest))
    /\ nextId' = nextId + 1
    /\ added' = added \cup {fd}
    /\ retired' = retired \cup Displaced(registrations_, fd, "add")
    /\ UNCHANGED <<tlsVars, libVars, onceVars, running_, inRun, stack, calls, cycleVars, stopCalled>>

\* loop.remove(fd) called by user code.
Remove(fd) ==
    /\ UserCode
    /\ registrations_' = remove(registrations_, fd)
    /\ retired' = retired \cup Displaced(registrations_, fd, "remove")
    /\ UNCHANGED <<tlsVars, libVars, onceVars, running_, inRun, stack, nextId, calls, added, cycleVars, stopCalled>>

\* EventLoop::stop called by user code.
Stop ==
    /\ UserCode
    /\ running_' = FALSE
    /\ stopCalled' = inRun
    /\ UNCHANGED <<tlsVars, libVars, onceVars, registrations_, inRun, stack, nextId, calls, added, retired,
                   cycleVars>>

\* ------------------------------------------------------------ run_once
\* run_once without its first test.
RunOnceSkipsPoll_never(regs) == FALSE

\* run_once's first test: no registrations, return without polling.
RunOnceSkipsPoll(regs) == regs = <<>>

\* run_once's test of poll's result.
NoEvents(r) == r <= 0

\* run_once handing poll's result to its caller.
EarlyReturnValue_propagates(r) == r

\* The value run_once returns when poll reported nothing.
EarlyReturnValue(r) == 0

RunOnceBegin(os) ==
    /\ fired' = <<>>
    /\ retiredAtStart' = retired
    /\ cycleFirstId' = nextId
    /\ IF RunOnceSkipsPoll(registrations_)
       THEN /\ pc' = "returning"
            /\ ret' = 0
            /\ lastPoll' = "not_called"
            /\ UNCHANGED <<poll_entries_, snapshot, i, ready, dispatched>>
       ELSE LET p == poll(BuildPollEntries(registrations_), os) IN
            /\ poll_entries_' = p.entries
            /\ ready' = p.result
            /\ lastPoll' = IF p.waited THEN "waited" ELSE "no_wait"
            /\ IF NoEvents(p.result)
               THEN /\ pc' = "returning"
                    /\ ret' = EarlyReturnValue(p.result)
                    /\ UNCHANGED <<snapshot, i, dispatched>>
               ELSE /\ pc' = "dispatch"
                    /\ snapshot' = registrations_
                    /\ i' = 1
                    /\ dispatched' = 0
                    /\ UNCHANGED ret
    /\ UNCHANGED <<tlsVars, libVars, registrations_, running_, inRun, stack, nextId, calls, added, retired,
                   stopCalled>>

\* What the wait call may report in the current state: a descriptor that has
\* been closed is not an open descriptor, and the wait call answers POLLNVAL
\* for it.
OsOutcomes(entries) ==
    { os \in WaitOutcomes(entries) :
        os.result >= 0 =>
            \A k \in 1..Len(entries) :
                entries[k].fd \in closed_fds => os.revents[k] = {"POLLNVAL"} }

\* run_once called by the main program.
RunOnce ==
    /\ MainCode
    /\ \E os \in OsOutcomes(BuildPollEntries(registrations_)) : RunOnceBegin(os)

\* The dispatch loop stands at an entry.
AtEntry ==
    /\ pc = "dispatch"
    /\ stack = <<>>
    /\ i <= Len(poll_entries_)
    /\ i <= DispatchLimit(DispatchSource(snapshot, registrations_), registrations_)

CurEntry == poll_entries_[i]
CurCallback == DispatchSource(snapshot, registrations_)[i].callback

\* The loop moves past the entry it stands at.
NextEntry(counted) ==
    /\ i' = i + 1
    /\ dispatched' = IF counted THEN dispatched + 1 ELSE dispatched

\* The registration at the current entry has its callback invoked.
Fire == fired' = Append(fired, [id |-> CurCallback.id, fd |-> CurEntry.fd])

\* An entry whose returned mask is empty.
DispatchNotReady ==
    /\ AtEntry
    /\ CurEntry.returned = None
    /\ NextEntry(FALSE)
    /\ UNCHANGED <<tlsVars, libVars, registrations_, poll_entries_, running_, pc, inRun, snapshot, ready, ret,
                   lastPoll, stack, nextId, calls, added, retired, cycleVars, stopCalled>>

\* A ready entry whose callback is an empty std::function.
DispatchNull ==
    /\ AtEntry
    /\ CurEntry.returned # None
    /\ CurCallback.kind = "null"
    /\ NextEntry(TRUE)
    /\ UNCHANGED <<tlsVars, libVars, registrations_, poll_entries_, running_, pc, inRun, snapshot, ready, ret,
                   lastPoll, stack, nextId, calls, added, retired, cycleVars, stopCalled>>

\* A ready entry whose callback is a user callback installed by add.
DispatchEvent ==
    /\ AtEntry
    /\ CurEntry.returned # None
    /\ CurCallback.kind = "event"
    /\ Invoke(Frame(CurCallback, "dispatch", <<CurEntry.fd, CurEntry.returned>>, FALSE))
    /\ Fire
    /\ UNCHANGED <<tlsVars, libVars, registrations_, onceVars, running_, inRun, nextId, added, retired,
                   retiredAtStart, cycleFirstId, stopCalled>>

\* A user callback returns; the dispatch loop then counts it and moves on.
CallbackReturn ==
    /\ stack # <<>>
    /\ stack' = SubSeq(stack, 1, Len(stack) - 1)
    /\ IF Len(stack) = 1 /\ pc = "dispatch"
       THEN NextEntry(TRUE)
       ELSE UNCHANGED <<i, dispatched>>
    /\ UNCHANGED <<tlsVars, libVars, registrations_, poll_entries_, running_, pc, inRun, snapshot, ready, ret,
                   lastPoll, nextId, calls, added, retired, cycleVars, stopCalled>>

\* The dispatch loop is over: run_once returns the number dispatched.
RunOnceReturn ==
    /\ pc = "dispatch"
    /\ stack = <<>>
    /\ ~AtEntry
    /\ pc' = "returning"
    /\ ret' = dispatched
    /\ UNCHANGED <<tlsVars, libVars, registrations_, poll_entries_, running_, inRun, snapshot, i, ready,
                   dispatched, lastPoll, stack, nextId, calls, added, retired, cycleVars,
                   stopCalled>>

\* Control is back in run_once's caller, which has taken the returned value.
\* The locals are gone; poll_entries_ keeps stale entries in the code, which the
\* next run_once overwrites before it reads any, so they are dropped here.
RunOnceDone ==
    /\ pc = "returning"
    /\ pc' = "idle"
    /\ poll_entries_' = <<>>
    /\ snapshot' = <<>>
    /\ i' = 1
    /\ ready' = 0
    /\ dispatched' = 0
    /\ ret' = -1
    /\ lastPoll' = "not_called"
    /\ fired' = <<>>
    /\ retiredAtStart' = {}
    /\ cycleFirstId' = 1
    /\ UNCHANGED <<tlsVars, libVars, registrations_, running_, inRun, stack, nextId, calls, added, retired,
                   stopCalled>>

\* ------------------------------------------------------------ run / stop
\* run's loop condition without the running_ flag.
RunContinues_ignores_stop(running, regs) == regs # <<>>

\* run's loop condition.
RunContinues(running, regs) == running /\ regs # <<>>

\* EventLoop::run is called by the main program.
Run ==
    /\ MainCode
    /\ running_' = TRUE
    /\ inRun' = TRUE
    /\ stopCalled' = FALSE
    /\ UNCHANGED <<tlsVars, libVars, registrations_, onceVars, stack, nextId, calls, added, retired, cycleVars>>

\* run's loop starts another run_once.
RunIterate ==
    /\ inRun /\ pc = "idle" /\ stack = <<>>
    /\ RunContinues(running_, registrations_)
    /\ \E os \in OsOutcomes(BuildPollEntries(registrations_)) : RunOnceBegin(os)

\* run's loop ends and run returns.
RunReturn ==
    /\ inRun /\ pc = "idle" /\ stack = <<>>
    /\ ~RunContinues(running_, registrations_)
    /\ inRun' = FALSE
    /\ stopCalled' = FALSE
    /\ UNCHANGED <<tlsVars, libVars, registrations_, onceVars, running_, stack, nextId, calls, added, retired,
                   cycleVars>>

Interests == {ReadReady, WriteReady}

Next ==
    \/ \E fd \in Fds, interest \in Interests, kind \in {"event", "null"} : Add(fd, interest, kind)
    \/ \E fd \in Fds : Remove(fd)
    \/ Stop
    \/ RunOnce
    \/ DispatchNotReady
    \/ DispatchNull
    \/ DispatchEvent
    \/ CallbackReturn
    \/ RunOnceReturn
    \/ RunOnceDone
    \/ Run
    \/ RunIterate
    \/ RunReturn

Spec == Init /\ [][Next]_vars

\* ------------------------------------------------------------ async_socket.hpp
\* An AsyncSocket is identified with its native handle, a descriptor of Fds.
\* The results the socket calls may give.
ConnectResults == {"None", "WouldBlock", "ConnectionRefused"}
AcceptErrors == {"WouldBlock", "ConnectionReset"}
IoErrors == {"ConnectionReset"}
IoResults == {-1, 2}
ClientFds == {7}
DefaultAddress == "0.0.0.0:0"
AcceptResults ==
    { [client_fd |-> c, address |-> "peer", error |-> "None"] : c \in ClientFds }
    \cup { [client_fd |-> invalid_socket, address |-> DefaultAddress, error |-> e] :
             e \in AcceptErrors }

\* A one-shot lambda that forgets loop.remove(fd).
LambdaRemove_forgotten(regs, fd) == regs

\* The loop.remove(fd) a lambda starts with.
LambdaRemove(regs, fd) == remove(regs, fd)

\* The accept lambda removing itself on every fire.
AcceptRemoves_always(events, err) == TRUE

\* Whether the accept lambda removes its registration: on an Error readiness,
\* or when accept failed with something else than WouldBlock.
AcceptRemoves(events, err) ==
    has_event(events, Error) \/ (err # "None" /\ err # "WouldBlock")

\* The registration a socket operation installs through loop.add.
Install(fd, interest, kind) ==
    /\ registrations_' = add(registrations_, fd, interest, NewCallback(kind, fd, interest))
    /\ added' = added \cup {fd}
    /\ retired' = retired \cup Displaced(registrations_, fd, "add")

\* async_connect going to the loop on every error of the immediate attempt.
ConnectPending_any_error(err) == err # "None"

\* Whether async_connect goes to the loop: the immediate attempt neither
\* succeeded nor failed with something else than WouldBlock.
ConnectPending(err) == err # "None" /\ err = "WouldBlock"

\* The connect lambda reporting success whatever the readiness.
ConnectReport_ignores_error(events) == <<"None">>

\* What the connect lambda hands to the user callback.
ConnectReport(events) ==
    IF has_event(events, Error) THEN <<"ConnectFailed">> ELSE <<"None">>

\* AsyncSocket::async_connect; err is the result of socket_.connect(addr).
AsyncConnect(fd, err) ==
    /\ UserCode
    /\ nextId <= MaxCallbacks
    /\ nextId' = nextId + 1
    /\ IF ConnectPending(err)
       THEN /\ registrations_' = add(registrations_, fd, WriteReady,
                    [NewCallback("connect", fd, WriteReady) EXCEPT !.immediate = err])
            /\ added' = added \cup {fd}
            /\ retired' = retired \cup Displaced(registrations_, fd, "add")
            /\ UNCHANGED <<stack, calls>>
       ELSE /\ Invoke(Frame(NewCallback("connect", fd, WriteReady), "inline", <<err>>, TRUE))
            /\ UNCHANGED <<registrations_, added, retired>>
    /\ UNCHANGED <<tlsVars, libVars, onceVars, running_, inRun, cycleVars, stopCalled>>

\* AsyncSocket::async_accept
AsyncAccept(fd) ==
    /\ UserCode
    /\ nextId <= MaxCallbacks
    /\ nextId' = nextId + 1
    /\ Install(fd, ReadReady, "accept")
    /\ UNCHANGED <<tlsVars, libVars, onceVars, running_, inRun, stack, calls, cycleVars, stopCalled>>

\* AsyncSocket::async_send
AsyncSend(fd) ==
    /\ UserCode
    /\ nextId <= MaxCallbacks
    /\ nextId' = nextId + 1
    /\ Install(fd, WriteReady, "send")
    /\ UNCHANGED <<tlsVars, libVars, onceVars, running_, inRun, stack, calls, cycleVars, stopCalled>>

\* AsyncSocket::async_recv
AsyncRecv(fd) ==
    /\ UserCode
    /\ nextId <= MaxCallbacks
    /\ nextId' = nextId + 1
    /\ Install(fd, ReadReady, "recv")
    /\ UNCHANGED <<tlsVars, libVars, onceVars, running_, inRun, stack, calls, cycleVars, stopCalled>>

\* A lambda fires and removes its descriptor's registration.
LambdaRemoves ==
    /\ registrations_' = LambdaRemove(registrations_, CurCallback.fd)
    /\ retired' = retired \cup Displaced(registrations_, CurCallback.fd, "remove")

\* A lambda fires and hands `args` to the user callback.
LambdaCalls(args, performed) ==
    /\ Invoke(Frame(CurCallback, "dispatch", args, performed))
    /\ Fire
    /\ UNCHANGED <<tlsVars, libVars, onceVars, running_, inRun, nextId, added, retiredAtStart, cycleFirstId,
                   stopCalled>>

\* The lambda of async_connect fires.
FireConnect ==
    /\ AtEntry
    /\ CurEntry.returned # None
    /\ CurCallback.kind = "connect"
    /\ LambdaRemoves
    /\ LambdaCalls(ConnectReport(CurEntry.returned), FALSE)

\* The lambda of async_send / async_recv reporting on the socket call whatever
\* the readiness.
IoReport_ignores_error(events, failed, n, err) ==
    IF n < 0 THEN <<err, -1>> ELSE <<"None", n>>

\* Whether the lambda of async_send / async_recv / async_accept performs its
\* socket call: not when the readiness carries Error.
IoPerformed(events) == ~has_event(events, Error)

\* What the lambda of async_send / async_recv reports: n is the value of the
\* socket call, err the platform error a negative n leaves behind.
IoReport(events, failed, n, err) ==
    IF has_event(events, Error) THEN <<failed, -1>>
    ELSE IF n < 0 THEN <<err, -1>>
    ELSE <<"None", n>>

\* The lambda of async_send fires.
FireSend(n, err) ==
    /\ AtEntry
    /\ CurEntry.returned # None
    /\ CurCallback.kind = "send"
    /\ LambdaRemoves
    /\ LambdaCalls(IoReport(CurEntry.returned, "SendFailed", n, err),
                   IoPerformed(CurEntry.returned))

\* The lambda of async_recv fires.
FireRecv(n, err) ==
    /\ AtEntry
    /\ CurEntry.returned # None
    /\ CurCallback.kind = "recv"
    /\ LambdaRemoves
    /\ LambdaCalls(IoReport(CurEntry.returned, "ReceiveFailed", n, err),
                   IoPerformed(CurEntry.returned))

\* The lambda of async_accept fires and calls the user callback; res is what
\* socket_.accept() gives when it is called.
FireAccept(res) ==
    /\ AtEntry
    /\ CurEntry.returned # None
    /\ CurCallback.kind = "accept"
    /\ has_event(CurEntry.returned, Error) \/ res.error # "WouldBlock"
    /\ LET err == IF has_event(CurEntry.returned, Error) THEN "AcceptFailed" ELSE res.error IN
       /\ IF AcceptRemoves(CurEntry.returned, res.error)
          THEN LambdaRemoves
          ELSE UNCHANGED <<registrations_, retired>>
       /\ LambdaCalls(IF err = "None"
                      THEN <<"None", res.client_fd, res.address>>
                      ELSE <<err, invalid_socket, DefaultAddress>>,
                      IoPerformed(CurEntry.returned))

\* The lambda of async_accept fires on a spurious wake-up: accept would block.
FireAcceptSpurious ==
    /\ AtEntry
    /\ CurEntry.returned # None
    /\ CurCallback.kind = "accept"
    /\ ~has_event(CurEntry.returned, Error)
    /\ IF AcceptRemoves(CurEntry.returned, "WouldBlock")
       THEN LambdaRemoves
       ELSE UNCHANGED <<registrations_, retired>>
    /\ Fire
    /\ NextEntry(TRUE)
    /\ UNCHANGED <<tlsVars, libVars, poll_entries_, running_, pc, inRun, snapshot, ready, ret, lastPoll, stack,
                   nextId, calls, added, retiredAtStart, cycleFirstId, stopCalled>>

NextAsync ==
    \/ \E fd \in Fds, err \in ConnectResults : AsyncConnect(fd, err)
    \/ \E fd \in Fds : AsyncAccept(fd)
    \/ \E fd \in Fds : AsyncSend(fd)
    \/ \E fd \in Fds : AsyncRecv(fd)
    \/ \E fd \in Fds : Remove(fd)
    \/ RunOnce
    \/ DispatchNotReady
    \/ FireConnect
    \/ \E n \in IoResults, err \in IoErrors : FireSend(n, err)
    \/ \E n \in IoResults, err \in IoErrors : FireRecv(n, err)
    \/ \E res \in AcceptResults : FireAccept(res)
    \/ FireAcceptSpurious
    \/ CallbackReturn
    \/ RunOnceReturn
    \/ RunOnceDone

SpecAsync == Init /\ [][NextAsync]_vars

\* AsyncSocket::close: closes the socket; the loop is not told.
AsyncClose(fd) ==
    /\ UserCode
    /\ closed_fds' = closed_fds \cup {fd}
    /\ UNCHANGED <<loopVars, tlsVars, alive, fd_, os_next, os_open, os_closed, ws_frame,
                   ws_wire, ws_decoded, entries_, lastSet>>

\* Sockets with one-shot operations that are closed while run() is driving
\* the loop or before.
NextClose ==
    \/ \E fd \in Fds \ closed_fds : AsyncSend(fd)
    \/ \E fd \in Fds \ closed_fds : AsyncRecv(fd)
    \/ \E fd \in Fds \ closed_fds : AsyncClose(fd)
    \/ Run
    \/ RunIterate
    \/ DispatchNotReady
    \/ \E n \in IoResults, err \in IoErrors : FireSend(n, err)
    \/ \E n \in IoResults, err \in IoErrors : FireRecv(n, err)
    \/ CallbackReturn
    \/ RunOnceReturn
    \/ RunOnceDone
    \/ RunReturn

SpecClose == Init /\ [][NextClose]_vars

\* ------------------------------------------------------------ tls_socket.hpp
\* One TlsSocket over a blocking Socket.  The secure-channel provider and the
\* transport are the environment: every status, size and byte they may give
\* is an input of the action that calls them.  With _WIN32 the engine is the
\* SChannel one; the other build has no engine, its handshake sets
\* handshake_done_ and its send/recv pass through to the socket.

\* The longest plaintext handed to send or produced by the provider.
MaxData == 2

\* std::vector<uint8_t> recv_buf(16384) and std::array<uint8_t, 16384> enc_buf.
RecvBufSize == 16384

Bytes == {0, 1}
Datas == UNION { [1..n -> Bytes] : n \in 0..MaxData }
\* The capacities of the buffer a caller hands to recv.
Caps == 0..(MaxData + 1)
TlsFds == {5}

\* The sizes QueryContextAttributes may report.
StreamSizes == { [cbHeader |-> 1, cbTrailer |-> 1], [cbHeader |-> 2, cbTrailer |-> 2] }

\* The longest handshake stream of a peer, in messages.
MaxMessages == 2

\* A handshake message of the peer: half of recv_buf, so that one raw recv can
\* deliver a part of a message, one message, or two coalesced.
HsMessageSize == RecvBufSize \div 2

\* The byte counts of the chunks the transport delivers during the handshake.
HsChunks == { (HsMessageSize \div 2) * k : k \in 1..4 }
HsStatuses == {"OK", "ContinueNeeded", "IncompleteMessage", "Error"}

\* What a peer sends during a connect: handshake tokens, the message that
\* completes the handshake, a message longer than recv_buf (which no input
\* buffer of the loop can hold whole), application data.  After its last
\* message the peer closes its side.
MessageKinds == {"token", "finished", "large", "data"}
HsStreams == UNION { [1..n -> MessageKinds] : n \in 0..MaxMessages }

\* A peer and the provider's way with input that holds several messages:
\* greedy, it processes every complete message up to the one that ends the
\* handshake; otherwise one message per call, the rest reported as extra.
Peers == [stream : HsStreams, greedy : BOOLEAN]

\* Socket::send on n bytes: -1, or the number of bytes the transport took.
SendOutcomes(fd, n) ==
    IF fd = invalid_socket THEN {-1}
    ELSE {-1} \cup (IF n = 0 THEN {0} ELSE 1..n)

\* Socket::recv into a buffer of `capacity` bytes: -1, 0, or a byte count.
RecvOutcomes(fd, capacity, sizes) ==
    IF fd = invalid_socket THEN {-1}
    ELSE {-1, 0} \cup { k \in sizes : k <= capacity }

\* The status InitializeSecurityContextW gives after a message of that kind.
StatusAfter(kind) ==
    IF kind = "token" THEN "ContinueNeeded"
    ELSE IF kind = "finished" THEN "OK"
    ELSE "Error"

\* The bytes of a message of the peer.
MsgSize(kind) ==
    IF kind = "large" THEN RecvBufSize + HsMessageSize \div 2 ELSE HsMessageSize

\* The bytes of the k messages that follow the first c messages of a stream.
RECURSIVE MsgBytes(_, _, _)
MsgBytes(stream, c, k) ==
    IF k = 0 THEN 0 ELSE MsgSize(stream[c + 1]) + MsgBytes(stream, c + 1, k - 1)

\* The complete messages in n bytes that follow the first c messages.
RECURSIVE Complete(_, _, _)
Complete(stream, c, n) ==
    IF c >= Len(stream) \/ n < MsgSize(stream[c + 1]) THEN 0
    ELSE 1 + Complete(stream, c + 1, n - MsgSize(stream[c + 1]))

\* The messages a greedy provider processes out of `avail` complete ones that
\* follow the first c messages of the stream.
RECURSIVE Processed(_, _, _)
Processed(stream, c, avail) ==
    IF avail = 0 THEN 0
    ELSE IF StatusAfter(stream[c + 1]) # "ContinueNeeded" THEN 1
    ELSE 1 + Processed(stream, c + 1, avail - 1)

\* InitializeSecurityContextW on an input buffer of n bytes, after c messages
\* of the peer: SEC_E_INCOMPLETE_MESSAGE while no message is complete, else the
\* status after the messages processed, their number, and the size of the rest
\* of the input (in_buffers[1] typed SECBUFFER_EXTRA when it is not 0).
Provider(peer, c, n) ==
    LET avail == Complete(peer.stream, c, n)
        k == IF avail = 0 THEN 0
             ELSE IF peer.greedy THEN Processed(peer.stream, c, avail)
             ELSE 1
    IN  IF k = 0
        THEN [status |-> "IncompleteMessage", extra |-> 0, msgs |-> 0]
        ELSE [status |-> StatusAfter(peer.stream[c + k]),
              extra |-> n - MsgBytes(peer.stream, c, k), msgs |-> k]

\* EncryptMessage on header / data / trailer buffers of the cached sizes: an
\* error, or SEC_E_OK with the trailer buffer's cbBuffer set to the bytes used.
\* Buffers of size zero (sizes never cached) are too small for any record.
EncryptOutcomes(sizes) ==
    { [status |-> "Error", trailer |-> sizes.cbTrailer] }
    \cup (IF sizes.cbHeader = 0 \/ sizes.cbTrailer = 0 THEN {}
          ELSE { [status |-> "OK", trailer |-> t] : t \in 1..sizes.cbTrailer })

\* The message buffer after EncryptMessage: header bytes (2), the data
\* encrypted in place, trailer bytes (3), cut to the three buffers' sizes.
EncryptedRecord(data, header, trailer) ==
    [k \in 1..(header + Len(data) + trailer) |->
        IF k <= header THEN 2
        ELSE IF k <= header + Len(data) THEN 1 - data[k - header]
        ELSE 3]

\* A SecBuffer after DecryptMessage: its type and, for data, its bytes.
SecBuffer(type, bytes) == [BufferType |-> type, bytes |-> bytes]

\* DecryptMessage on `received` bytes: a status other than SEC_E_OK, or
\* SEC_E_OK with the four buffers typed header / data / trailer / extra-or-empty
\* (the plaintext, shorter than the record, in the data buffer; one byte of a
\* following record as extra), or typed without any data buffer (a record
\* that carries no application data).
DecryptOutcomes(received) ==
    { [status |-> st, buffers |-> <<SecBuffer("DATA", <<>>), SecBuffer("EMPTY", <<>>),
                                     SecBuffer("EMPTY", <<>>), SecBuffer("EMPTY", <<>>)>>] :
        st \in {"IncompleteMessage", "Error"} }
    \cup
    UNION { { [status |-> "OK", buffers |-> <<SecBuffer("HEADER", <<>>), SecBuffer("DATA", p),
                                              SecBuffer("TRAILER", <<>>), last>>] :
                p \in { d \in Datas : Len(d) + Len(last.bytes) < received } } :
            last \in { SecBuffer("EMPTY", <<>>), SecBuffer("EXTRA", <<2>>) } }
    \cup
    { [status |-> "OK", buffers |-> <<SecBuffer("HEADER", <<>>), SecBuffer("TRAILER", <<>>),
                                      SecBuffer("EMPTY", <<>>), SecBuffer("EMPTY", <<>>)>>] }

\* The length of the run of byte b at the start and at the end of a record.
RECURSIVE Leading(_, _)
Leading(w, b) == IF w = <<>> \/ Head(w) # b THEN 0 ELSE 1 + Leading(Tail(w), b)

RECURSIVE Trailing(_, _)
Trailing(w, b) ==
    IF w = <<>> \/ w[Len(w)] # b THEN 0 ELSE 1 + Trailing(SubSeq(w, 1, Len(w) - 1), b)

\* DecryptMessage of the peer on one whole record made by EncryptMessage (the
\* paired operation): the header and trailer located, the data between them
\* decrypted in place and typed as the data buffer.
DecryptRecord(w) ==
    LET h == Leading(w, 2)
        t == Trailing(w, 3)
    IN  [status |-> "OK",
         buffers |-> <<SecBuffer("HEADER", <<>>),
                       SecBuffer("DATA", [k \in 1..(Len(w) - h - t) |-> 1 - w[h + k]]),
                       SecBuffer("TRAILER", <<>>), SecBuffer("EMPTY", <<>>)>>]

\* The bytes DecryptMessage reported as extra.
RECURSIVE ExtraLen(_)
ExtraLen(buffers) ==
    IF buffers = <<>> THEN 0
    ELSE (IF Head(buffers).BufferType = "EXTRA" THEN Len(Head(buffers).bytes) ELSE 0)
         + ExtraLen(Tail(buffers))

\* recv's scan of the provider's buffers: the index of the first data buffer
\* that is not empty (0: none).
PlainIndex(buffers) ==
    IF \E k \in 1..4 : buffers[k].BufferType = "DATA" /\ Len(buffers[k].bytes) > 0
    THEN CHOOSE k \in 1..4 :
            /\ buffers[k].BufferType = "DATA" /\ Len(buffers[k].bytes) > 0
            /\ \A j \in 1..(k - 1) :
                  ~(buffers[j].BufferType = "DATA" /\ Len(buffers[j].bytes) > 0)
    ELSE 0

\* A caller's buffer of `cap` bytes before recv (2: a byte recv did not write),
\* and after `n` bytes of `bytes` were copied to its start.
FreshBuffer(cap) == [k \in 1..cap |-> 2]
CopyInto(buffer, bytes, n) ==
    [k \in 1..Len(buffer) |-> IF k <= n THEN bytes[k] ELSE buffer[k]]

\* recv copying the whole plaintext region.
CopyLen_unbounded(size, cap) == size

\* The number of bytes recv copies from a plaintext region of `size` bytes.
CopyLen(size, cap) == IF size < cap THEN size ELSE cap

\* send returning what the raw send returned.
SendResult_wire_count(sent, size) == sent

\* What send returns after the raw send returned `sent`.
SendResult(sent, size) == IF sent > 0 THEN size ELSE -1

\* The handshake loop going on after a raw recv of 0.
RecvFailed_negative_only(received) == received < 0

\* The handshake loop's test of what the raw recv returned.
RecvFailed(received) == received <= 0

\* perform_handshake going on without a credential handle.
HandshakeRefused_never(acquired) == FALSE

\* perform_handshake's test of the credential handle.
HandshakeRefused(acquired) == ~acquired

\* close applying the shutdown token whatever the engine's state.
ShutdownNotified_always(done, build) == build

\* Whether close applies the shutdown token.
ShutdownNotified(done, build) == done /\ build

\* recv_buf[0, total_recv) is a sequence of runs of the peer's stream, each
\* the `len` bytes from offset `from`.  The raw recv writes n bytes, the
\* stream's bytes from offset `from`, behind them.
BufAppend(buf, from, n) ==
    IF n <= 0 THEN buf
    ELSE IF buf # <<>> /\ buf[Len(buf)].from + buf[Len(buf)].len = from
    THEN [buf EXCEPT ![Len(buf)].len = @ + n]
    ELSE Append(buf, [from |-> from, len |-> n])

\* The last n bytes of the buffer.
RECURSIVE BufSuffix(_, _)
BufSuffix(buf, n) ==
    IF n <= 0 \/ buf = <<>> THEN <<>>
    ELSE LET last == buf[Len(buf)] IN
         IF last.len >= n THEN <<[from |-> last.from + last.len - n, len |-> n]>>
         ELSE Append(BufSuffix(SubSeq(buf, 1, Len(buf) - 1), n - last.len), last)

\* The memmove taking its bytes from the start of recv_buf.
MoveExtra_no_offset(buf, extra_size) ==
    <<[from |-> buf[1].from, len |-> extra_size]>>

\* The memmove of the extra bytes to the start of recv_buf: the buffer is then
\* the last extra_size bytes of what the provider was given.
MoveExtra(buf, extra_size) == BufSuffix(buf, extra_size)

\* A call returns: the locals of the handshake are gone.
TlsReturns(call) ==
    /\ tlsCall' = call
    /\ recv_buf' = <<>>
    /\ hs_token_failed' = FALSE
    /\ tlsPc' = "idle"
    /\ hsStatus' = "none"
    /\ total_recv' = 0
    /\ hs_peer' = NoPeer
    /\ hs_delivered' = 0
    /\ hs_consumed' = 0

TlsIdle == tlsPc = "idle"

\* TlsSocket::create: sockOk and credOk say whether ::socket and
\* AcquireCredentialsHandleW succeed.
TlsCreate(sockOk, credOk) ==
    /\ TlsIdle
    /\ tls_fd' = IF sockOk THEN CHOOSE fd \in TlsFds : TRUE ELSE invalid_socket
    /\ cred_acquired' = (cred_acquired \/ (schannel /\ sockOk /\ credOk))
    /\ TlsReturns([NoCall EXCEPT !.op = "create", !.established = handshake_done_,
                       !.err = IF ~sockOk THEN "SocketCreationFailed"
                               ELSE IF schannel /\ ~credOk THEN "HandshakeFailed"
                               ELSE "None"])
    /\ UNCHANGED <<loopVars, libVars, ctx_initialized, handshake_done_, stream_sizes_, unfed, schannel>>

\* TlsSocket::connect up to the handshake loop: err is the result of the
\* transport's connect (which fails on a transport that is connected), st the
\* status of the first InitializeSecurityContextW; what the peer will send and
\* how the provider takes it is any of Peers.  An output token is handed to
\* the raw send and the result is dropped; tokenLost says that the provider
\* gave a token and the raw send did not take it whole.
TlsConnect(err, st, tokenLost) ==
    /\ TlsIdle
    /\ err = "None" => ~handshake_done_
    /\ IF tls_fd = invalid_socket \/ err # "None"
       THEN /\ TlsReturns([NoCall EXCEPT !.op = "connect", !.established = handshake_done_,
                               !.err = IF tls_fd = invalid_socket THEN "SocketClosed" ELSE err])
            /\ UNCHANGED <<ctx_initialized, handshake_done_, unfed>>
       ELSE IF ~schannel
       THEN /\ handshake_done_' = TRUE
            /\ TlsReturns([NoCall EXCEPT !.op = "connect", !.established = handshake_done_])
            /\ UNCHANGED <<ctx_initialized, unfed>>
       ELSE IF HandshakeRefused(cred_acquired)
       THEN /\ TlsReturns([NoCall EXCEPT !.op = "connect", !.established = handshake_done_,
                               !.err = "HandshakeFailed"])
            /\ UNCHANGED <<ctx_initialized, handshake_done_, unfed>>
       ELSE /\ ctx_initialized' = TRUE
            /\ tlsPc' = "handshake"
            /\ hsStatus' = st
            /\ total_recv' = 0
            /\ recv_buf' = <<>>
            /\ hs_token_failed' = tokenLost
            /\ hs_peer' \in Peers
            /\ hs_delivered' = 0
            /\ hs_consumed' = 0
            /\ unfed' = 0
            /\ tlsCall' = [NoCall EXCEPT !.op = "connecting"]
            /\ UNCHANGED handshake_done_
    /\ UNCHANGED <<loopVars, libVars, tls_fd, cred_acquired, stream_sizes_, schannel>>

\* The handshake loop going on only after SEC_I_CONTINUE_NEEDED.
HandshakeContinues_no_incomplete == hsStatus = "ContinueNeeded"

\* The handshake loop's condition.
HandshakeContinues == hsStatus \in {"ContinueNeeded", "IncompleteMessage"}

\* The raw recv of the loop offered the whole of recv_buf.
RecvSpan_whole(total) == RecvBufSize

\* The size of the span the raw recv of the loop is offered: what is left of
\* recv_buf behind the accumulated bytes.
RecvSpan(total) == RecvBufSize - total

\* The bytes of the peer's stream not yet delivered.
HsRemaining == MsgBytes(hs_peer.stream, 0, Len(hs_peer.stream)) - hs_delivered

\* One iteration of the handshake loop: received is what the raw recv returns
\* (0 only when the peer has sent everything and closed, or for a buffer
\* without room), the provider is given the accumulated bytes; tokenLost says
\* that it gave an output token and the raw send did not take it whole.
HandshakeStep(received, tokenLost) ==
    /\ tlsPc = "handshake"
    /\ HandshakeContinues
    /\ received \in RecvOutcomes(tls_fd, RecvSpan(total_recv),
                                 { k \in HsChunks : k <= HsRemaining })
    /\ received = 0 => HsRemaining = 0 \/ RecvSpan(total_recv) = 0
    /\ IF RecvFailed(received)
       THEN TlsReturns([NoCall EXCEPT !.op = "connect", !.established = handshake_done_,
                            !.cap = RecvSpan(total_recv),
                            !.status = hsStatus, !.rawRecvs = 1, !.raw = received,
                            !.msgs = hs_consumed, !.err = "HandshakeFailed"])
       ELSE LET out == Provider(hs_peer, hs_consumed, total_recv + received)
                given == BufAppend(recv_buf, hs_delivered, received)
            IN  /\ hsStatus' = out.status
                /\ hs_token_failed' = (hs_token_failed \/ tokenLost)
                /\ total_recv' = IF out.extra > 0 THEN out.extra
                                 ELSE IF out.status # "IncompleteMessage" THEN 0
                                 ELSE total_recv + received
                /\ recv_buf' = IF out.extra > 0 THEN MoveExtra(given, out.extra)
                               ELSE IF out.status # "IncompleteMessage" THEN <<>>
                               ELSE given
                /\ hs_delivered' = hs_delivered + (IF received > 0 THEN received ELSE 0)
                /\ hs_consumed' = hs_consumed + out.msgs
                /\ UNCHANGED <<tlsPc, tlsCall, hs_peer>>
    /\ UNCHANGED <<loopVars, libVars, tls_fd, cred_acquired, ctx_initialized, handshake_done_,
                   stream_sizes_, unfed, schannel>>

\* The handshake loop is over: sizes is what QueryContextAttributes stores
\* (ZeroSizes: the query fails and the sizes stay as they are; its result is
\* dropped).  recv_buf goes with the call, and with it the bytes the provider
\* reported as extra last.
HandshakeEnd(sizes) ==
    /\ tlsPc = "handshake"
    /\ ~HandshakeContinues
    /\ IF hsStatus # "OK"
       THEN /\ TlsReturns([NoCall EXCEPT !.op = "connect", !.established = handshake_done_,
                               !.status = hsStatus, !.msgs = hs_consumed,
                               !.err = "HandshakeFailed"])
            /\ UNCHANGED <<handshake_done_, stream_sizes_, unfed>>
       ELSE /\ stream_sizes_' = IF sizes = ZeroSizes THEN stream_sizes_ ELSE sizes
            /\ handshake_done_' = TRUE
            /\ unfed' = total_recv
            /\ TlsReturns([NoCall EXCEPT !.op = "connect", !.established = handshake_done_,
                               !.status = hsStatus, !.msgs = hs_consumed,
                               !.extra = total_recv, !.sizes = sizes])
    /\ UNCHANGED <<loopVars, libVars, tls_fd, cred_acquired, ctx_initialized, schannel>>

\* TlsSocket::send: the provider's EncryptMessage and the raw send give any of
\* their outcomes.
TlsSend(data) ==
    /\ TlsIdle
    /\ LET call == [NoCall EXCEPT !.op = "send", !.established = handshake_done_,
                                  !.data = data]
       IN  IF ~handshake_done_
           THEN TlsReturns([call EXCEPT !.ret = -1])
           ELSE IF ~schannel
           THEN \E sent \in SendOutcomes(tls_fd, Len(data)) :
                    TlsReturns([call EXCEPT !.wire = data, !.rawSends = 1, !.raw = sent,
                                            !.ret = sent])
           ELSE \E enc \in EncryptOutcomes(stream_sizes_) :
                    IF enc.status # "OK"
                    THEN TlsReturns([call EXCEPT !.status = enc.status, !.ret = -1])
                    ELSE LET record == EncryptedRecord(data, stream_sizes_.cbHeader, enc.trailer)
                         IN  \E sent \in SendOutcomes(tls_fd, Len(record)) :
                                 TlsReturns([call EXCEPT !.status = enc.status,
                                                         !.wire = record,
                                                         !.rawSends = 1,
                                                         !.raw = sent,
                                                         !.ret = SendResult(sent, Len(data))])
    /\ UNCHANGED <<loopVars, libVars, tls_fd, cred_acquired, ctx_initialized, handshake_done_,
                   stream_sizes_, unfed, schannel>>

\* The byte counts the raw recv of TlsSocket::recv may give.
RecordSizes == (1..(MaxData + 1)) \cup {RecvBufSize}

\* What the raw recv of TlsSocket::recv gives and what the provider makes of
\* it.  Any byte count with any outcome of DecryptMessage; and, after a send
\* whose record the transport took whole, a peer that sends the record back
\* and whose bytes the paired DecryptMessage decrypts.
Arrivals ==
    { [received |-> n, wire |-> <<>>, data |-> <<>>, decs |-> DecryptOutcomes(n)] :
        n \in RecvOutcomes(tls_fd, RecvBufSize, RecordSizes) }
    \cup
    (IF tlsCall.op = "send" /\ tlsCall.raw > 0 /\ tlsCall.raw = Len(tlsCall.wire)
        /\ tls_fd # invalid_socket
     THEN { [received |-> Len(tlsCall.wire), wire |-> tlsCall.wire, data |-> tlsCall.data,
             decs |-> { DecryptRecord(tlsCall.wire) }] }
     ELSE {})

\* TlsSocket::recv into a buffer of cap bytes.  enc_buf is new in every call:
\* the provider is given the bytes of this call's raw recv.
TlsRecv(cap) ==
    /\ TlsIdle
    /\ LET call == [NoCall EXCEPT !.op = "recv", !.established = handshake_done_,
                                  !.cap = cap, !.buffer = FreshBuffer(cap),
                                  !.leftover = unfed]
       IN  IF ~handshake_done_
           THEN /\ TlsReturns([call EXCEPT !.ret = -1])
                /\ UNCHANGED unfed
           ELSE IF ~schannel
           THEN \/ \E received \in RecvOutcomes(tls_fd, cap, 1..MaxData) :
                   \E bytes \in { d \in Datas :
                                    Len(d) = (IF received > 0 THEN received ELSE 0) } :
                       /\ TlsReturns([call EXCEPT !.rawRecvs = 1, !.raw = received,
                                                  !.hasPlain = received > 0, !.plain = bytes,
                                                  !.buffer = CopyInto(@, bytes, Len(bytes)),
                                                  !.ret = received])
                       /\ UNCHANGED unfed
                \/ /\ tlsCall.op = "send" /\ tlsCall.raw > 0 /\ tlsCall.raw = Len(tlsCall.wire)
                   /\ tlsCall.raw <= cap
                   /\ TlsReturns([call EXCEPT !.data = tlsCall.data, !.wire = tlsCall.wire,
                                              !.rawRecvs = 1, !.raw = tlsCall.raw,
                                              !.hasPlain = TRUE, !.plain = tlsCall.wire,
                                              !.buffer = CopyInto(@, tlsCall.wire, tlsCall.raw),
                                              !.ret = tlsCall.raw])
                   /\ UNCHANGED unfed
           ELSE \E in \in Arrivals :
                    IF in.received <= 0
                    THEN /\ TlsReturns([call EXCEPT !.rawRecvs = 1, !.raw = in.received,
                                                    !.ret = in.received])
                         /\ UNCHANGED unfed
                    ELSE \E dec \in in.decs :
                         LET k == PlainIndex(dec.buffers)
                             found == dec.status = "OK" /\ k # 0
                             plain == IF found THEN dec.buffers[k].bytes ELSE <<>>
                             copy_len == CopyLen(Len(plain), cap)
                             extra == IF dec.status = "OK" THEN ExtraLen(dec.buffers) ELSE 0
                         IN  /\ TlsReturns([call EXCEPT
                                    !.data = in.data, !.wire = in.wire,
                                    !.rawRecvs = 1, !.raw = in.received, !.status = dec.status,
                                    !.fed = in.received, !.extra = extra,
                                    !.hasPlain = found, !.plain = plain,
                                    !.buffer = IF found THEN CopyInto(@, plain, copy_len) ELSE @,
                                    !.ret = IF found THEN copy_len ELSE -1])
                             /\ unfed' = IF dec.status = "OK" THEN extra ELSE unfed
    /\ UNCHANGED <<loopVars, libVars, tls_fd, cred_acquired, ctx_initialized, handshake_done_,
                   stream_sizes_, schannel>>

\* TlsSocket::close: the shutdown token is applied when Established
\* (ApplyControlToken gives any status; nothing is reported), then the
\* transport is closed.
TlsClose ==
    /\ TlsIdle
    /\ handshake_done_' = FALSE
    /\ tls_fd' = invalid_socket
    /\ unfed' = 0
    /\ IF ShutdownNotified(handshake_done_, schannel)
       THEN \E st \in {"OK", "Error"} :
                TlsReturns([NoCall EXCEPT !.op = "close", !.established = handshake_done_,
                                !.status = st])
       ELSE TlsReturns([NoCall EXCEPT !.op = "close", !.established = handshake_done_])
    /\ UNCHANGED <<loopVars, libVars, cred_acquired, ctx_initialized, stream_sizes_, schannel>>

NextTls ==
    \/ \E sockOk, credOk \in BOOLEAN : TlsCreate(sockOk, credOk)
    \/ \E err \in {"None", "ConnectionRefused"}, st \in HsStatuses, tokenLost \in BOOLEAN :
           TlsConnect(err, st, tokenLost)
    \/ \E received \in {-1, 0} \cup HsChunks, tokenLost \in BOOLEAN :
           HandshakeStep(received, tokenLost)
    \/ \E sizes \in StreamSizes \cup {ZeroSizes} : HandshakeEnd(sizes)
    \/ \E data \in Datas : TlsSend(data)
    \/ \E cap \in Caps : TlsRecv(cap)
    \/ TlsClose

InitTls == LoopInit /\ TlsInit /\ LibInit /\ schannel \in BOOLEAN

SpecTls == InitTls /\ [][NextTls]_vars

\* ------------------------------------------------------------ socket.hpp
\* The Socket objects of a program, each holding one descriptor or the
\* invalid sentinel, and the descriptors of the process.  ::socket returns a
\* descriptor that was never returned before (the reuse of a closed
\* descriptor's number by the system is not modelled), and fails when
\* MaxDescriptors were handed out.  A TlsSocket holds its descriptor in its
\* socket_ member: its create, move constructor, close and destructor call the
\* Socket operation of the same name on it, and its move assignment calls
\* close and then Socket's move assignment.

\* The descriptors as the operations below see them.
SocketState == [fd_ |-> fd_, open |-> os_open, closed |-> os_closed]

\* impl::close_socket(fd).
close_socket(sys, fd) ==
    [sys EXCEPT !.open = @ \ {fd}, !.closed[fd] = IF @ < 2 THEN @ + 1 ELSE @]

\* Socket::close.
Socket_close(sys, o) ==
    IF sys.fd_[o] # invalid_socket
    THEN [close_socket(sys, sys.fd_[o]) EXCEPT !.fd_[o] = invalid_socket]
    ELSE sys

\* Socket's move assignment, `dst = std::move(src)`.
Socket_move_assign(sys, dst, src) ==
    IF dst # src
    THEN LET c == Socket_close(sys, dst)
         IN  [c EXCEPT !.fd_[dst] = c.fd_[src], !.fd_[src] = invalid_socket]
    ELSE sys

\* The descriptors after an operation.
SocketBecomes(sys) ==
    /\ fd_' = sys.fd_
    /\ os_open' = sys.open
    /\ os_closed' = sys.closed

\* Socket's default constructor.
SocketConstruct(o) ==
    /\ o \notin alive
    /\ alive' = alive \cup {o}
    /\ fd_' = [fd_ EXCEPT ![o] = invalid_socket]
    /\ UNCHANGED <<loopVars, tlsVars, closed_fds, ws_frame, ws_wire, ws_decoded,
                 entries_, lastSet, os_next, os_open, os_closed>>

\* Socket::create: ok says whether ::socket succeeds.
SocketCreate(o, ok) ==
    /\ o \in alive
    /\ IF ok /\ os_next \in Descriptors
       THEN /\ fd_' = [fd_ EXCEPT ![o] = os_next]
            /\ os_open' = os_open \cup {os_next}
            /\ os_next' = os_next + 1
       ELSE /\ fd_' = [fd_ EXCEPT ![o] = invalid_socket]
            /\ UNCHANGED <<os_open, os_next>>
    /\ UNCHANGED <<loopVars, tlsVars, closed_fds, ws_frame, ws_wire, ws_decoded,
                 entries_, lastSet, alive, os_closed>>

\* Socket's move constructor, `Socket dst(std::move(src))`.
SocketMoveConstruct(dst, src) ==
    /\ dst \notin alive
    /\ src \in alive
    /\ alive' = alive \cup {dst}
    /\ fd_' = [fd_ EXCEPT ![dst] = fd_[src], ![src] = invalid_socket]
    /\ UNCHANGED <<loopVars, tlsVars, closed_fds, ws_frame, ws_wire, ws_decoded,
                 entries_, lastSet, os_next, os_open, os_closed>>

\* Socket's move assignment; with tls, TlsSocket's, which calls close first.
SocketMoveAssign(dst, src, tls) ==
    /\ dst \in alive
    /\ src \in alive
    /\ SocketBecomes(IF tls /\ dst # src
                     THEN Socket_move_assign(Socket_close(SocketState, dst), dst, src)
                     ELSE Socket_move_assign(SocketState, dst, src))
    /\ UNCHANGED <<loopVars, tlsVars, closed_fds, ws_frame, ws_wire, ws_decoded,
                 entries_, lastSet, alive, os_next>>

\* Socket::close.
SocketClose(o) ==
    /\ o \in alive
    /\ SocketBecomes(Socket_close(SocketState, o))
    /\ UNCHANGED <<loopVars, tlsVars, closed_fds, ws_frame, ws_wire, ws_decoded,
                 entries_, lastSet, alive, os_next>>

\* Socket's destructor.
SocketDestroy(o) ==
    /\ o \in alive
    /\ alive' = alive \ {o}
    /\ SocketBecomes(Socket_close(SocketState, o))
    /\ UNCHANGED <<loopVars, tlsVars, closed_fds, ws_frame, ws_wire, ws_decoded,
                 entries_, lastSet, os_next>>

NextSocket ==
    \/ \E o \in Objects : SocketConstruct(o)
    \/ \E o \in Objects, ok \in BOOLEAN : SocketCreate(o, ok)
    \/ \E dst, src \in Objects : SocketMoveConstruct(dst, src)
    \/ \E dst, src \in Objects, tls \in BOOLEAN : SocketMoveAssign(dst, src, tls)
    \/ \E o \in Objects : SocketClose(o)
    \/ \E o \in Objects : SocketDestroy(o)

SpecSocket == Init /\ [][NextSocket]_vars

\* ------------------------------------------------------------ websocket.hpp
\* The frame codec, on bytes 0..255.  A frame is encoded once and the bytes
\* are decoded.

\* The values of the 7-bit length field that announce a 16-bit and a 64-bit
\* length, and the largest length the 16-bit field holds.
ExtendedLength16 == 126
ExtendedLength64 == 127
MaxLength16 == 65535

\* enum class WsOpcode.
Opcodes == {0, 1, 2, 8, 9, 10}

\* a ^ b on bytes.
RECURSIVE Xor(_, _)
Xor(a, b) ==
    IF a = 0 THEN b
    ELSE IF b = 0 THEN a
    ELSE ((a + b) % 2) + 2 * Xor(a \div 2, b \div 2)

\* len >> (8 * n).
RECURSIVE ShiftRightBytes(_, _)
ShiftRightBytes(len, n) == IF n = 0 THEN len ELSE ShiftRightBytes(len \div 256, n - 1)

\* The loop `payload_len = (payload_len << 8) | data[pos + i]` over the bytes.
RECURSIVE BigEndian(_)
BigEndian(bytes) ==
    IF bytes = <<>> THEN 0
    ELSE BigEndian(SubSeq(bytes, 1, Len(bytes) - 1)) * 256 + bytes[Len(bytes)]

\* payload[i] ^ mask_key[i % 4] for every byte (i counts from 0).
Masked(bytes, key) ==
    [k \in 1..Len(bytes) |-> Xor(bytes[k], key[((k - 1) % 4) + 1])]

\* The encoder writing a length of 126 into the 7-bit field.
LengthBytes_off_by_one(len) ==
    IF len <= ExtendedLength16 THEN <<len>>
    ELSE IF len <= MaxLength16 THEN <<ExtendedLength16, (len \div 256) % 256, len % 256>>
    ELSE <<ExtendedLength64>> \o [j \in 1..8 |-> ShiftRightBytes(len, 8 - j) % 256]

\* The length of the payload as ws_encode_frame writes it: the 7-bit field and
\* the bytes of the extended length after it.
LengthBytes(len) ==
    IF len < ExtendedLength16 THEN <<len>>
    ELSE IF len <= MaxLength16 THEN <<ExtendedLength16, (len \div 256) % 256, len % 256>>
    ELSE <<ExtendedLength64>> \o [j \in 1..8 |-> ShiftRightBytes(len, 8 - j) % 256]

ws_encode_frame(frame) ==
    LET b0 == frame.opcode + (IF frame.fin THEN 128 ELSE 0)
        len == LengthBytes(Len(frame.payload))
        b1 == (IF frame.masked THEN 128 ELSE 0) + len[1]
    IN  <<b0, b1>> \o Tail(len)
        \o (IF frame.masked THEN frame.mask_key ELSE <<>>)
        \o (IF frame.masked THEN Masked(frame.payload, frame.mask_key) ELSE frame.payload)

ws_decode_frame(data) ==
    IF Len(data) < 2 THEN DefaultFrame
    ELSE
    LET masked == data[2] >= 128
        len7 == data[2] % 128
        head == [DefaultFrame EXCEPT !.fin = data[1] >= 128, !.opcode = data[1] % 16,
                                     !.masked = masked]
        pos == IF len7 = ExtendedLength16 THEN 4
               ELSE IF len7 = ExtendedLength64 THEN 10
               ELSE 2
    IN  IF Len(data) < pos THEN head
        ELSE
        LET payload_len == IF len7 = ExtendedLength16 THEN data[3] * 256 + data[4]
                           ELSE IF len7 = ExtendedLength64 THEN BigEndian(SubSeq(data, 3, 10))
                           ELSE len7
            start == IF masked THEN pos + 4 ELSE pos
        IN  IF masked /\ Len(data) < pos + 4 THEN head
            ELSE
            LET keyed == IF masked
                         THEN [head EXCEPT !.mask_key = SubSeq(data, pos + 1, pos + 4)]
                         ELSE head
                body == SubSeq(data, start + 1, start + payload_len)
            IN  IF Len(data) < start + payload_len THEN keyed
                ELSE [keyed EXCEPT !.payload = IF masked THEN Masked(body, keyed.mask_key)
                                               ELSE body]

\* The frames given to the encoder: every header with short payloads, and
\* payloads of the lengths at which the encoding of the length changes.
WsFrames ==
    [fin : BOOLEAN, opcode : Opcodes, masked : BOOLEAN,
     mask_key : { <<0, 0, 0, 0>>, <<90, 255, 1, 128>> },
     payload : { <<>>, <<255>>, <<0, 255, 90, 1, 128>> }]
    \cup { [fin |-> TRUE, opcode |-> 2, masked |-> m, mask_key |-> <<90, 255, 1, 128>>,
            payload |-> [k \in 1..n |-> (k * 7) % 256]] :
                m \in BOOLEAN,
                n \in { ExtendedLength16 - 1, ExtendedLength16, ExtendedLength64,
                        MaxLength16, MaxLength16 + 1 } }

\* ws_encode_frame(frame).
WsEncode(frame) ==
    /\ ws_wire = <<>>
    /\ ws_frame' = frame
    /\ ws_wire' = ws_encode_frame(frame)
    /\ ws_decoded' = <<>>
    /\ UNCHANGED <<loopVars, tlsVars, closed_fds, alive, fd_, os_next, os_open, os_closed,
                 entries_, lastSet>>

\* ws_decode_frame on the bytes the encoder returned.
WsDecode ==
    /\ ws_wire # <<>>
    /\ ws_decoded = <<>>
    /\ ws_decoded' = <<ws_decode_frame(ws_wire)>>
    /\ UNCHANGED <<loopVars, tlsVars, closed_fds, alive, fd_, os_next, os_open, os_closed,
                 entries_, lastSet, ws_frame, ws_wire>>

NextWs ==
    \/ \E frame \in WsFrames : WsEncode(frame)
    \/ WsDecode

SpecWs == Init /\ [][NextWs]_vars

\* ------------------------------------------------------------ http.hpp
\* A header name is a sequence of ASCII codes.  The characters are the two
\* ends of the upper-case range with their lower-case forms, and the
\* characters next to the range with the characters 32 above them:
\* '@' 'A' 'Z' '[' '`' 'a' 'z' '{'.
UpperA == 65
UpperZ == 90
CaseOffset == 32

Chars == {UpperA - 1, UpperA, UpperZ, UpperZ + 1,
          UpperA - 1 + CaseOffset, UpperA + CaseOffset, UpperZ + CaseOffset,
          UpperZ + 1 + CaseOffset}

\* The empty name, every name of one character, and the four casings of a
\* name of two letters, which extends a one-character name.
HeaderNames ==
    {<<>>} \cup { <<c>> : c \in Chars }
        \cup { <<c, d>> : c \in {UpperA, UpperA + CaseOffset},
                          d \in {UpperZ, UpperZ + CaseOffset} }

HeaderValues == {"", "gzip"}

\* The number of entries the vector holds.
MaxEntries == 2

\* The character iequals compares in place of c.
Lower_identity(c) == c
Lower(c) == IF c >= UpperA /\ c <= UpperZ THEN c + CaseOffset ELSE c

iequals(a, b) ==
    IF Len(a) # Len(b) THEN FALSE
    ELSE \A k \in 1..Len(a) : Lower(a[k]) = Lower(b[k])

\* The positions of the entries whose key matches; the loops of set, get and
\* has stop at the first of them.
Matches(entries, key) == { k \in 1..Len(entries) : iequals(entries[k].key, key) }
FirstMatch(entries, key) ==
    CHOOSE k \in Matches(entries, key) : \A m \in Matches(entries, key) : k <= m

HttpHeaders_set(entries, key, value) ==
    IF Matches(entries, key) # {}
    THEN [entries EXCEPT ![FirstMatch(entries, key)].value = value]
    ELSE Append(entries, [key |-> key, value |-> value])

HttpHeaders_get(entries, key) ==
    IF Matches(entries, key) # {} THEN entries[FirstMatch(entries, key)].value ELSE ""

HttpHeaders_has(entries, key) == Matches(entries, key) # {}

\* headers.set(key, value).  lastSet keeps every call's arguments, one call for
\* every set of names that differ in letter case only.
Casings(name) ==
    { n \in HeaderNames :
        /\ Len(n) = Len(name)
        /\ \A k \in 1..Len(n) :
              \/ n[k] = name[k]
              \/ n[k] \in UpperA..UpperZ /\ name[k] = n[k] + CaseOffset
              \/ name[k] \in UpperA..UpperZ /\ n[k] = name[k] + CaseOffset }

HttpSet(key, value) ==
    /\ Len(HttpHeaders_set(entries_, key, value)) <= MaxEntries
    /\ entries_' = HttpHeaders_set(entries_, key, value)
    /\ lastSet' = [c \in DOMAIN lastSet \cup {Casings(key)} |->
                      IF c = Casings(key) THEN [key |-> key, value |-> value]
                      ELSE lastSet[c]]
    /\ UNCHANGED <<loopVars, tlsVars, closed_fds, alive, fd_, os_next, os_open, os_closed,
                 ws_frame, ws_wire, ws_decoded>>

NextHttp == \E key \in HeaderNames : \E value \in HeaderValues : HttpSet(key, value)

SpecHttp == Init /\ [][NextHttp]_vars

\* ------------------------------------------------------------ properties
InCycle == pc \in {"dispatch", "returning"} /\ snapshot # <<>>

\* The number of snapshot entries whose dispatch has started.
Started == IF stack = <<>> THEN i - 1 ELSE i

\* Entry k of the cycle was reported ready and has a callable callback.
Dispatchable(k) ==
    poll_entries_[k].returned # None /\ snapshot[k].callback.kind # "null"

\* The registrations among the first n of the snapshot that must have fired.
ExpectedFired(n) ==
    LET idx == SelectSeq([k \in 1..n |-> k], Dispatchable)
    IN  [j \in 1..Len(idx) |-> [id |-> snapshot[idx[j]].callback.id, fd |-> snapshot[idx[j]].fd]]

FiredIds == { fired[k].id : k \in 1..Len(fired) }

\* A step that enters run_once.
EntersRunOnce == pc = "idle" /\ pc' # "idle"

\* C1: the registrations hold at most one entry per descriptor, size() never
\* exceeds the number of distinct descriptors add was called with, and an add
\* on a registered descriptor leaves size() unchanged.
C1_OnePerDescriptor ==
    /\ [](/\ \A j, k \in 1..Len(registrations_) :
                j # k => registrations_[j].fd # registrations_[k].fd
          /\ Len(registrations_) <= Cardinality(added))
    /\ [][\A k \in 1..Len(registrations_') :
            (/\ nextId' = nextId + 1
             /\ registrations_'[k].callback.id = nextId
             /\ registrations_'[k].fd \in RegFds(registrations_))
            => Len(registrations_') = Len(registrations_)]_vars

\* A callback re-added a descriptor of the running cycle while being dispatched.
C1_Witness ==
    /\ pc = "dispatch" /\ stack # <<>>
    /\ Len(registrations_) = Cardinality(Fds)
    /\ \E k \in 1..Len(registrations_) :
          /\ registrations_[k].callback.id >= cycleFirstId
          /\ registrations_[k].fd \in RegFds(snapshot)

\* C2: in a cycle whose poll reported readiness, the callbacks invoked so far
\* are exactly those of the ready entries of the registrations installed when
\* the cycle started, each once and in order, and the loop ends only after the
\* last entry, whatever the callbacks did to the live registrations.
C2_SnapshotDispatch ==
    InCycle =>
        /\ Len(snapshot) = Len(poll_entries_)
        /\ Started <= Len(snapshot)
        /\ fired = ExpectedFired(Started)
        /\ pc = "returning" => i = Len(snapshot) + 1

\* Two callbacks ran in a cycle during which every registration was removed.
C2_Witness ==
    /\ pc = "returning"
    /\ Len(fired) = 2
    /\ registrations_ = <<>>

\* C3: a registration removed during a cycle is still invoked in that cycle
\* when it was reported ready; a removed registration is never invoked by a
\* cycle that starts after the removal, and its descriptor is polled by such
\* a cycle only for a registration added later.
C3_RemoveTakesEffectNextCycle ==
    /\ [](InCycle =>
            /\ \A r \in retiredAtStart : r.cause = "remove" => r.id \notin FiredIds
            /\ \A r \in retired \ retiredAtStart : \A k \in 1..Started :
                  (r.cause = "remove" /\ snapshot[k].callback.id = r.id /\ Dispatchable(k))
                  => r.id \in FiredIds)
    /\ [][EntersRunOnce =>
            \A k \in 1..Len(poll_entries_') : \A r \in retired :
                (r.cause = "remove" /\ r.fd = poll_entries_'[k].fd)
                => \E j \in 1..Len(registrations_) :
                      /\ registrations_[j].fd = r.fd
                      /\ registrations_[j].callback.id > r.id]_vars

\* A callback is running whose registration another callback of the same
\* cycle had removed before.
C3_Witness ==
    /\ pc = "dispatch" /\ Len(stack) = 1
    /\ stack[1].via = "dispatch"
    /\ ~stack[1].live
    /\ [id |-> stack[1].id, fd |-> stack[1].fd, cause |-> "remove"] \in retired \ retiredAtStart

\* C4: no callback installed during a cycle is invoked in that cycle, and no
\* descriptor is dispatched twice in one cycle.
C4_NoSameCycleDispatch ==
    InCycle =>
        /\ \A k \in 1..Len(fired) : fired[k].id < cycleFirstId
        /\ \A j, k \in 1..Len(fired) : j # k => fired[j].fd # fired[k].fd

\* A cycle ends with a callback installed during it on a descriptor the cycle's
\* poll had reported ready.
C4_Witness ==
    /\ pc = "returning" /\ fired # <<>>
    /\ \E k \in 1..Len(registrations_) : \E m \in 1..Len(poll_entries_) :
          /\ registrations_[k].callback.id >= cycleFirstId
          /\ registrations_[k].callback.kind = "event"
          /\ poll_entries_[m].fd = registrations_[k].fd
          /\ poll_entries_[m].returned # None

\* A step in which the dispatch loop invokes the lambda of async_accept.
AcceptFires ==
    /\ AtEntry
    /\ CurEntry.returned # None
    /\ CurCallback.kind = "accept"
    /\ fired' # fired

\* C5: the user callback of a one-shot operation is invoked at most once, and
\* when a fired one-shot lambda calls it, the loop holds no registration for
\* the socket's descriptor.
C5_OneShotOnce ==
    /\ [](\A id \in BagToSet(calls) : CopiesIn(id, calls) <= 1)
    /\ [][(/\ Len(stack') = Len(stack) + 1
           /\ stack'[Len(stack')].via = "dispatch"
           /\ stack'[Len(stack')].kind \in OneShotKinds)
          => stack'[Len(stack')].fd \notin RegFds(registrations_')]_vars

\* The user callback of a fired async_recv is running.
C5_Witness ==
    /\ pc = "dispatch" /\ Len(stack) = 1
    /\ stack[1].via = "dispatch"
    /\ stack[1].kind = "recv"
    /\ stack[1].live
    /\ CopiesIn(stack[1].id, calls) = 1

\* C6: a fire of the async_accept lambda leaves the registrations as they are
\* when it accepts a connection (the user callback gets Error::None, the new
\* handle and the peer address) and when accept would block (no user callback);
\* it removes the descriptor's registration exactly when it reports a failure,
\* which it does on an Error readiness and on any other accept error.
C6_AcceptPersistent ==
    [][AcceptFires =>
        LET fd == CurCallback.fd
            called == Len(stack') = 1
            args == stack'[1].args
        IN  /\ has_event(CurEntry.returned, Error) =>
                called /\ args = <<"AcceptFailed", invalid_socket, DefaultAddress>>
            /\ ~called => registrations_' = registrations_
            /\ (called /\ args[1] = "None") =>
                /\ registrations_' = registrations_
                /\ args[2] \in ClientFds
                /\ args[3] = "peer"
            /\ (called /\ args[1] # "None") =>
                /\ args[1] # "WouldBlock"
                /\ args[2] = invalid_socket
                /\ fd \notin RegFds(registrations_')
            /\ registrations_' # registrations_ => (called /\ args[1] # "None")]_vars

\* The user callback of async_accept runs with an accepted connection while
\* the accept registration is still installed.
C6_Witness ==
    /\ pc = "dispatch" /\ Len(stack) = 1
    /\ stack[1].kind = "accept"
    /\ stack[1].args[1] = "None"
    /\ stack[1].live
    /\ stack[1].id \in RegIds(registrations_)

\* C7: run_once on a loop without registrations returns 0, does not call the
\* poller and runs no callback.
C7_EmptyLoopNoPoll ==
    [][(EntersRunOnce /\ registrations_ = <<>>) =>
        /\ pc' = "returning"
        /\ ret' = 0
        /\ lastPoll' = "not_called"
        /\ stack' = <<>>
        /\ fired' = <<>>]_vars

\* run_once is returning from a call on an empty loop.
C7_Witness ==
    /\ pc = "returning"
    /\ registrations_ = <<>>
    /\ snapshot = <<>>
    /\ lastPoll = "not_called"
    /\ ret = 0

\* C8: when poll returns a negative value, run_once returns 0, runs no callback
\* and leaves the registrations as they were.
C8_PollFailureSwallowed ==
    [][(EntersRunOnce /\ ready' < 0) =>
        /\ pc' = "returning"
        /\ ret' = 0
        /\ stack' = <<>>
        /\ fired' = <<>>
        /\ registrations_' = registrations_]_vars

\* run_once is returning after the wait call failed.
C8_Witness ==
    /\ pc = "returning"
    /\ lastPoll = "waited"
    /\ ready < 0
    /\ registrations_ # <<>>

\* C9: run starts a cycle only while stop() has not been called and there are
\* registrations, returns only when one of the two fails, and a cycle during
\* which stop() was called still invokes every ready callback.
C9_RunUntilStopOrEmpty ==
    /\ [][(inRun /\ EntersRunOnce) => (~stopCalled /\ registrations_ # <<>>)]_vars
    /\ [][(inRun /\ ~inRun') => (stopCalled \/ registrations_ = <<>>)]_vars
    /\ []((inRun /\ stopCalled /\ pc = "returning" /\ snapshot # <<>>)
            => fired = ExpectedFired(Len(snapshot)))

\* Under run(), a callback runs that was invoked after stop() had been called
\* in the same cycle.
C9_Witness ==
    /\ inRun /\ pc = "dispatch" /\ Len(stack) = 1
    /\ stack[1].stopped
    /\ Len(fired) = 2

\* C10: a cycle that starts after add replaced the registration of a descriptor
\* polls the descriptor with the interest of the registered callback, and
\* invokes for it only a callback newer than every callback add had replaced.
C10_AddReplaces ==
    InCycle =>
        /\ \A k \in 1..Len(snapshot) :
              /\ poll_entries_[k].fd = snapshot[k].callback.fd
              /\ poll_entries_[k].requested = snapshot[k].callback.interest
        /\ \A k \in 1..Len(fired) : \A r \in retiredAtStart :
              (r.cause = "add" /\ r.fd = fired[k].fd) => r.id < fired[k].id

\* A callback runs for a descriptor whose registration add had replaced before
\* the cycle started.
C10_Witness ==
    /\ pc = "dispatch" /\ Len(stack) = 1
    /\ stack[1].via = "dispatch"
    /\ \E r \in retiredAtStart : r.cause = "add" /\ r.fd = stack[1].fd

\* The descriptors of the registrations, in their order.
FdSeq(regs) == [k \in 1..Len(regs) |-> regs[k].fd]

\* The position of a descriptor in a sequence of registrations (0: none).
PosOf(regs, fd) ==
    IF \E k \in 1..Len(regs) : regs[k].fd = fd
    THEN CHOOSE k \in 1..Len(regs) : regs[k].fd = fd
    ELSE 0

\* The frame of the callback a step has just invoked.
Invoked == stack'[Len(stack')]
Invokes == Len(stack') = Len(stack) + 1

\* C11: remove(d) for a descriptor that is not registered leaves the
\* registrations (descriptors, interests, callbacks, order) as they are, in
\* every state the loop can be in and whoever calls it.
C11_RemoveAbsentNoop ==
    /\ [](\A fd \in Fds :
            fd \notin RegFds(registrations_) => remove(registrations_, fd) = registrations_)
    /\ [][\A fd \in Fds :
            (Remove(fd) /\ fd \notin RegFds(registrations_))
            => registrations_' = registrations_]_vars

\* A callback runs during dispatch while one descriptor is registered and the
\* other one, removed before, is not: a remove of it is the claim's case.
C11_Witness ==
    /\ pc = "dispatch" /\ stack # <<>>
    /\ registrations_ # <<>>
    /\ \E fd \in Fds :
          /\ fd \notin RegFds(registrations_)
          /\ \E r \in retired : r.fd = fd /\ r.cause = "remove"
          /\ ENABLED Remove(fd)

\* C12: a one-shot operation removed before a cycle starts is not invoked by
\* that cycle, whatever the poll reports for its descriptor; once a cycle's
\* dispatch has begun, every one-shot operation the poll reported ready has its
\* callback invoked in that cycle, whatever the other callbacks removed.
C12_RemoveCancelsBeforeDispatch ==
    /\ [][(Invokes /\ Invoked.via = "dispatch" /\ Invoked.kind \in OneShotKinds)
            => \A r \in retiredAtStart' : r.cause = "remove" => r.id # Invoked.id]_vars
    /\ []((InCycle /\ pc = "returning") =>
            \A k \in 1..Len(snapshot) :
                (Dispatchable(k) /\ snapshot[k].callback.kind \in OneShotKinds)
                => CopiesIn(snapshot[k].callback.id, calls) = 1)

\* The callback of a one-shot operation runs although another callback of the
\* cycle had removed its registration, in a cycle that also polled ready a
\* descriptor whose earlier operation had been removed before the cycle.
C12_Witness ==
    /\ pc = "dispatch" /\ Len(stack) = 1
    /\ stack[1].via = "dispatch"
    /\ stack[1].kind \in OneShotKinds
    /\ ~stack[1].live
    /\ [id |-> stack[1].id, fd |-> stack[1].fd, cause |-> "remove"] \in retired \ retiredAtStart
    /\ \E r \in retiredAtStart : \E k \in 1..Len(poll_entries_) :
          /\ r.cause = "remove"
          /\ CopiesIn(r.id, calls) = 0
          /\ poll_entries_[k].fd = r.fd
          /\ poll_entries_[k].returned # None

\* C13: the callbacks of a cycle are invoked in the order of the registrations
\* when the cycle started, and that order is the order of insertion: an add of
\* a new descriptor appends, an add of a registered descriptor keeps every
\* position, and a remove keeps the order of the others.
C13_InsertionOrder ==
    /\ [](InCycle => \A j, k \in 1..Len(fired) :
            j < k => PosOf(snapshot, fired[j].fd) < PosOf(snapshot, fired[k].fd))
    /\ [][(EntersRunOnce /\ pc' = "dispatch") => snapshot' = registrations_]_vars
    /\ [][\A fd \in Fds :
            (nextId' = nextId + 1 /\ fd \in RegFds(registrations_')
                /\ registrations_'[PosOf(registrations_', fd)].callback.id = nextId)
            => FdSeq(registrations_') =
                  IF fd \in RegFds(registrations_)
                  THEN FdSeq(registrations_)
                  ELSE Append(FdSeq(registrations_), fd)]_vars
    /\ [][(nextId' = nextId /\ registrations_' # registrations_)
            => \E fd \in Fds :
                  FdSeq(registrations_') = SelectSeq(FdSeq(registrations_), LAMBDA d : d # fd)]_vars

\* Two callbacks ran in a cycle, the first one for a registration that add had
\* replaced in place after the second one was installed.
C13_Witness ==
    /\ pc = "dispatch"
    /\ Len(fired) = 2
    /\ fired[1].id > fired[2].id
    /\ \E r \in retiredAtStart : r.cause = "add" /\ r.fd = fired[1].fd

\* C14: after the wait call, poll's result is negative or the number of
\* entries whose returned mask is not empty.
C14_PollCountsReady ==
    (lastPoll = "waited" /\ pc \in {"dispatch", "returning"}) =>
        \/ ready < 0
        \/ ready = Cardinality({k \in 1..Len(poll_entries_) : poll_entries_[k].returned # None})

\* C15: when the immediate attempt of async_connect gives success or an error
\* other than WouldBlock, the user callback is invoked inline with that result
\* and the registrations stay as they are; such a callback is invoked once and
\* never handed to the loop.
C15_ConnectInline ==
    /\ [](\A k \in 1..Len(registrations_) :
            registrations_[k].callback.kind = "connect"
            => registrations_[k].callback.immediate = "WouldBlock")
    /\ [][(Invokes /\ Invoked.via = "inline") =>
            /\ Invoked.kind = "connect"
            /\ Invoked.id = nextId /\ nextId' = nextId + 1
            /\ Invoked.args \in { <<e>> : e \in ConnectResults \ {"WouldBlock"} }
            /\ CopiesIn(Invoked.id, calls') = 1
            /\ registrations_' = registrations_]_vars
    /\ [](\A k \in 1..Len(stack) :
            stack[k].via = "inline"
            => /\ CopiesIn(stack[k].id, calls) = 1
               /\ stack[k].id \notin RegIds(registrations_) \cup RegIds(snapshot))

\* The user callback of an async_connect that was refused at once runs inline,
\* called from a callback the loop is dispatching, with registrations installed.
C15_Witness ==
    /\ pc = "dispatch" /\ Len(stack) = 2
    /\ stack[2].via = "inline"
    /\ stack[2].args = <<"ConnectionRefused">>
    /\ registrations_ # <<>>

\* C16: an async_connect whose immediate attempt reports WouldBlock calls no
\* callback and leaves one registration for the descriptor, with interest
\* WriteReady only; when it fires, the user callback gets ConnectFailed if the
\* returned mask contains Error and Error::None otherwise.
C16_ConnectPending ==
    /\ [](\A k \in 1..Len(registrations_) :
            registrations_[k].callback.kind = "connect"
            => /\ registrations_[k].interest = WriteReady
               /\ Cardinality({j \in 1..Len(registrations_) :
                                 registrations_[j].fd = registrations_[k].fd}) = 1)
    /\ [][\A k \in 1..Len(registrations_') :
            (nextId' = nextId + 1 /\ registrations_'[k].callback.id = nextId
                /\ registrations_'[k].callback.kind = "connect")
            => stack' = stack /\ calls' = calls]_vars
    /\ [][(Invokes /\ Invoked.via = "dispatch" /\ Invoked.kind = "connect") =>
            Invoked.args = IF "Error" \in CurEntry.returned
                           THEN <<"ConnectFailed">> ELSE <<"None">>]_vars

\* The user callback of a pending async_connect runs with ConnectFailed.
C16_Witness ==
    /\ pc = "dispatch" /\ Len(stack) = 1
    /\ stack[1].via = "dispatch"
    /\ stack[1].kind = "connect"
    /\ stack[1].args = <<"ConnectFailed">>
    /\ stack[1].live

\* A step in which the lambda of async_send or async_recv calls the user callback.
IoFires == Invokes /\ Invoked.via = "dispatch" /\ Invoked.kind \in {"send", "recv"}

\* What the user callback gets when the socket call was performed.
IoPerformedArgs(args) ==
    \/ args[1] = "None" /\ args[2] >= 0
    \/ args[1] \in IoErrors /\ args[2] = -1

\* C17 as stated: on every fire the registration is removed, the socket call is
\* performed, and the user callback gets (Error::None, count) or (the platform
\* error of the call, -1).
C17_IoAlwaysPerformed ==
    [][IoFires =>
        /\ Invoked.fd \notin RegFds(registrations_')
        /\ Invoked.performed
        /\ IoPerformedArgs(Invoked.args)]_vars

\* C17, amended: on every fire the registration is removed; when the returned
\* mask contains Error no socket call is performed and the user callback gets
\* (SendFailed, -1) resp. (ReceiveFailed, -1); otherwise the socket call is
\* performed and the user callback gets (Error::None, count) or (the platform
\* error of the call, -1).
C17_IoPerformedUnlessError ==
    [][IoFires =>
        /\ Invoked.fd \notin RegFds(registrations_')
        /\ IF "Error" \in CurEntry.returned
           THEN /\ ~Invoked.performed
                /\ Invoked.args = <<IF Invoked.kind = "send" THEN "SendFailed"
                                    ELSE "ReceiveFailed", -1>>
           ELSE /\ Invoked.performed
                /\ IoPerformedArgs(Invoked.args)]_vars

\* The user callback of an async_send runs with SendFailed, no send performed.
C17_Witness ==
    /\ pc = "dispatch" /\ Len(stack) = 1
    /\ stack[1].kind = "send"
    /\ stack[1].args = <<"SendFailed", -1>>
    /\ ~stack[1].performed
    /\ stack[1].fd \notin RegFds(registrations_)

\* A step in which an async operation goes to the loop for a descriptor that
\* has a registration.
Reissues(fd) ==
    /\ nextId' = nextId + 1
    /\ fd \in RegFds(registrations_)
    /\ \E k \in 1..Len(registrations_') :
          registrations_'[k].fd = fd /\ registrations_'[k].callback.id = nextId

\* What C18 says of the step that issues the second operation: one
\* registration for the handle, with the later interest and callback.
ReplacesEarlier(fd) ==
    /\ Len(registrations_') = Len(registrations_)
    /\ \A k \in 1..Len(registrations_') :
          IF registrations_[k].fd = fd
          THEN /\ registrations_'[k].fd = fd
               /\ registrations_'[k].callback.id = nextId
               /\ registrations_'[k].callback.fd = fd
               /\ registrations_'[k].interest = registrations_'[k].callback.interest
               /\ registrations_'[k].interest =
                     IF registrations_'[k].callback.kind \in {"accept", "recv"}
                     THEN ReadReady ELSE WriteReady
          ELSE registrations_'[k] = registrations_[k]

\* C18 as stated: the second operation replaces the first, and the callback of
\* a replaced operation is never invoked.
C18_EarlierNeverInvoked ==
    /\ [][\A fd \in Fds : Reissues(fd) => ReplacesEarlier(fd)]_vars
    /\ [](\A r \in retired : r.cause = "add" => CopiesIn(r.id, calls) = 0)

\* C18, amended: the second operation replaces the first, and the callback of
\* a replaced operation is not invoked by any cycle that starts after the
\* replacement.
C18_EarlierNotInvokedLater ==
    /\ [][\A fd \in Fds : Reissues(fd) => ReplacesEarlier(fd)]_vars
    /\ [][(Invokes /\ Invoked.via = "dispatch")
            => \A r \in retiredAtStart' : r.cause = "add" => r.id # Invoked.id]_vars
    /\ [](InCycle => \A r \in retiredAtStart : r.cause = "add" => r.id \notin FiredIds)

\* The user callback of an async_recv runs for a handle whose earlier operation
\* it had replaced before the cycle started; the earlier one was never invoked.
C18_Witness ==
    /\ pc = "dispatch" /\ Len(stack) = 1
    /\ stack[1].via = "dispatch"
    /\ stack[1].kind = "recv"
    /\ \E r \in retiredAtStart :
          r.cause = "add" /\ r.fd = stack[1].fd /\ CopiesIn(r.id, calls) = 0

\* C19: send on an engine that is not Established returns -1 and hands nothing
\* to the transport; on an Established engine it returns -1 when the provider
\* fails to encrypt and when the transport's send fails, and the length of the
\* plaintext, which is less than the length of the record, when the transport
\* took the record.
C19_SendReturnsPlaintextLength ==
    tlsCall.op = "send" =>
        /\ ~tlsCall.established =>
              tlsCall.ret = -1 /\ tlsCall.rawSends = 0 /\ tlsCall.wire = <<>>
        /\ (tlsCall.established /\ schannel /\ tlsCall.status # "OK") =>
              tlsCall.ret = -1 /\ tlsCall.rawSends = 0
        /\ (tlsCall.established /\ tlsCall.rawSends = 1 /\ tlsCall.raw < 0) =>
              tlsCall.ret = -1
        /\ (tlsCall.established /\ tlsCall.rawSends = 1 /\ tlsCall.raw = Len(tlsCall.wire)) =>
              /\ tlsCall.ret = Len(tlsCall.data)
              /\ schannel => (tlsCall.status = "OK" /\ Len(tlsCall.wire) > Len(tlsCall.data))
        /\ tlsCall.ret \in {-1, Len(tlsCall.data)} \/ ~schannel

\* send returned the length of a plaintext whose record the transport took.
C19_Witness ==
    /\ tlsCall.op = "send"
    /\ schannel
    /\ tlsCall.established
    /\ tlsCall.status = "OK"
    /\ Len(tlsCall.data) = 2
    /\ tlsCall.raw = Len(tlsCall.wire)
    /\ tlsCall.ret = 2

\* C20: recv makes at most one raw recv; it returns -1 without a raw recv on an
\* engine that is not Established, the raw recv's value when that is 0 or
\* negative, -1 when the provider fails to decrypt or produces no plaintext
\* region, and else the smaller of the plaintext's length and the buffer's
\* capacity, with that many bytes of the plaintext at the start of the buffer.
C20_RecvOneRawRecv ==
    tlsCall.op = "recv" =>
        /\ tlsCall.rawRecvs <= 1
        /\ Len(tlsCall.buffer) = tlsCall.cap
        /\ IF ~tlsCall.established
           THEN tlsCall.ret = -1 /\ tlsCall.rawRecvs = 0 /\ tlsCall.buffer = FreshBuffer(tlsCall.cap)
           ELSE /\ tlsCall.rawRecvs = 1
                /\ IF tlsCall.raw <= 0
                   THEN tlsCall.ret = tlsCall.raw /\ tlsCall.buffer = FreshBuffer(tlsCall.cap)
                   ELSE IF schannel /\ (tlsCall.status # "OK" \/ ~tlsCall.hasPlain)
                   THEN tlsCall.ret = -1 /\ tlsCall.buffer = FreshBuffer(tlsCall.cap)
                   ELSE /\ tlsCall.ret <= Len(tlsCall.plain)
                        /\ tlsCall.ret <= tlsCall.cap
                        /\ tlsCall.ret = Len(tlsCall.plain) \/ tlsCall.ret = tlsCall.cap
                        /\ \A k \in 1..tlsCall.cap :
                              tlsCall.buffer[k] = IF k <= tlsCall.ret THEN tlsCall.plain[k] ELSE 2

\* recv returned the capacity of a buffer shorter than the plaintext.
C20_Witness ==
    /\ tlsCall.op = "recv"
    /\ schannel
    /\ tlsCall.established
    /\ tlsCall.status = "OK"
    /\ tlsCall.hasPlain
    /\ Len(tlsCall.plain) = 2
    /\ tlsCall.ret = 1
    /\ tlsCall.buffer = <<tlsCall.plain[1]>>

\* EventLoop::is_running.
is_running == running_

\* C27: is_running() reports whether the event loop is currently running: it
\* is false before run() is called, true while run() is executing, and false
\* again after run() has returned, whether run() ended because of stop() or
\* because the registration set became empty.
C27_IsRunningTracksRun ==
    is_running = inRun

\* The last call was a recv to which the peer gave back, whole, the record the
\* send before it had produced, into a caller's buffer that has room for the
\* plaintext.
RoundTrip ==
    /\ tlsCall.op = "recv"
    /\ tlsCall.wire # <<>>
    /\ tlsCall.cap >= Len(tlsCall.data)

\* C21: framed send/recv round trip: for every plaintext of N bytes, 0 <= N,
\* framing and encrypting it with send and decrypting the produced wire bytes
\* with the paired provider operation in recv (caller buffer capacity >= N)
\* yields exactly the original N bytes.
C21_RoundTrip ==
    RoundTrip =>
        /\ tlsCall.ret = Len(tlsCall.data)
        /\ SubSeq(tlsCall.buffer, 1, Len(tlsCall.data)) = tlsCall.data

\* The round trip of a plaintext that is not empty.
RoundTripNonEmpty ==
    RoundTrip /\ tlsCall.data # <<>> =>
        /\ tlsCall.ret = Len(tlsCall.data)
        /\ SubSeq(tlsCall.buffer, 1, Len(tlsCall.data)) = tlsCall.data

\* Whether the handshake on a peer's stream ends Established when every raw
\* recv delivers exactly one message: the first message that is not a token
\* is the one that completes the handshake.
RECURSIVE HsOutcome(_)
HsOutcome(stream) ==
    IF stream = <<>> THEN FALSE
    ELSE IF Head(stream) = "token" THEN HsOutcome(Tail(stream))
    ELSE Head(stream) = "finished"

\* This step is connect returning from the handshake loop, which has called
\* the raw recv at least once and never had a transport error from it.
HandshakeLoopReturns ==
    /\ tlsPc = "handshake" /\ tlsPc' = "idle"
    /\ hs_delivered > 0 \/ tlsCall'.rawRecvs = 1
    /\ tlsCall'.raw # -1

\* C22: the TLS handshake loop is insensitive to fragmentation of the raw
\* transport: for any handshake byte stream from the peer, delivering it in
\* any split into partial reads, or coalesced into a single read, ends in the
\* same terminal state (Established or Failed) as any other split, here the
\* split that delivers one message per read.
C22_FragmentationInsensitive ==
    [][HandshakeLoopReturns => handshake_done_' = HsOutcome(hs_peer.stream)]_vars

\* The same for a provider that processes every complete message it is given.
FragmentationInsensitiveGreedy ==
    [][HandshakeLoopReturns /\ hs_peer.greedy =>
          handshake_done_' = HsOutcome(hs_peer.stream)]_vars

\* With a provider that processes one message per call, a stream of a token
\* and the completing message can end Established.
OneByOneNeverEstablished ==
    [][HandshakeLoopReturns /\ ~hs_peer.greedy /\ hs_peer.stream = <<"token", "finished">>
          => ~handshake_done_']_vars

\* An iteration of the handshake loop after which the loop goes on keeps the
\* bytes the provider reported as extra as the accumulated bytes.
ExtraCarried ==
    tlsPc = "handshake" /\ tlsPc' = "handshake" /\ hs_delivered' > hs_delivered =>
        LET out == Provider(hs_peer, hs_consumed, total_recv + (hs_delivered' - hs_delivered))
        IN  out.extra > 0 => total_recv' = out.extra

\* A recv on an Established engine gave the provider the bytes left over by
\* the calls before it together with the bytes of its raw recv.
LeftoverFed(call) ==
    call.op = "recv" /\ call.established /\ schannel =>
        call.fed = call.leftover + (IF call.raw > 0 THEN call.raw ELSE 0)

\* C23: leftover raw bytes (received but not consumed by the secure-channel
\* provider) are never discarded: the slice reported as extra is carried into
\* the next handshake-loop iteration, and extra bytes left when the handshake
\* completes or after a recv are fed to the provider by the next recv call.
C23_LeftoverNeverDiscarded ==
    [][ExtraCarried /\ LeftoverFed(tlsCall')]_vars

\* The part of it that is about the handshake loop.
ExtraCarriedInLoop == [][ExtraCarried]_vars

\* The last call was a create that failed to acquire the credential handle.
CreateFailedToAcquire ==
    tlsCall.op = "create" /\ tlsCall.err = "HandshakeFailed"

\* The SChannel engine holds no credential handle.
NoCredential == schannel /\ ~cred_acquired

\* C24: if TlsSocket::create fails to acquire a secure-channel credential
\* handle, the engine never becomes Established afterwards: every subsequent
\* connect fails with HandshakeFailed and every send/recv returns -1.  Stated
\* for the operation that follows the create.
C24_NeverEstablishedAfterFailedCreate ==
    [][CreateFailedToAcquire /\ tlsCall' # tlsCall =>
          /\ ~handshake_done_'
          /\ tlsCall'.op = "connect" => tlsCall'.err = "HandshakeFailed"
          /\ tlsCall'.op \in {"send", "recv"} => tlsCall'.ret = -1]_vars

\* C24, amended: if create fails to acquire a credential handle and the
\* engine holds none from an earlier create, then until a later create
\* acquires one the engine is not Established: every connect fails, with
\* HandshakeFailed when the transport connect succeeded and with the
\* transport's error otherwise, and every send/recv returns -1.
C24_NotEstablishedWithoutCredential ==
    [][/\ CreateFailedToAcquire' /\ ~cred_acquired => NoCredential'
       /\ NoCredential /\ ~NoCredential' => tlsCall'.op = "create" /\ tlsCall'.err = "None"
       /\ NoCredential' =>
             /\ ~handshake_done_'
             /\ tlsPc' = "idle"
             /\ tlsCall'.op = "connect" =>
                   tlsCall'.err \in {"HandshakeFailed", "ConnectionRefused", "SocketClosed"}
             /\ tlsCall'.op = "connect" /\ tlsCall' # tlsCall /\ tls_fd # invalid_socket
                   /\ tlsCall'.err # "ConnectionRefused" => tlsCall'.err = "HandshakeFailed"
             /\ tlsCall'.op \in {"send", "recv"} => tlsCall'.ret = -1]_vars

\* A create failed to acquire the credential handle, the engine holds none,
\* and the connect after it failed with HandshakeFailed.
C24_Witness ==
    /\ NoCredential
    /\ tls_fd # invalid_socket
    /\ tlsCall.op = "connect"
    /\ tlsCall.err = "HandshakeFailed"

\* C25: close() in any state leaves the underlying transport closed and the
\* engine not Established (so later send/recv return -1); the shutdown
\* notification is attempted only when the engine was Established, its failure
\* is not reported, and a repeated close() has no further effect.
C25_CloseAlwaysCloses ==
    [][/\ TlsClose =>
             /\ tls_fd' = invalid_socket
             /\ ~handshake_done_'
             /\ tlsCall'.status # "none" => handshake_done_
             /\ tlsCall'.err = "None"
             /\ tlsCall.op = "close" =>
                   /\ UNCHANGED <<tls_fd, cred_acquired, ctx_initialized, handshake_done_,
                                  stream_sizes_>>
                   /\ tlsCall'.status = "none"
       /\ tlsCall.op = "close" /\ tlsCall'.op \in {"send", "recv"} => tlsCall'.ret = -1]_vars

\* close was called on an Established engine and the provider refused the
\* shutdown token.
C25_Witness ==
    /\ tlsCall.op = "close"
    /\ tlsCall.established
    /\ tlsCall.status = "Error"
    /\ tls_fd = invalid_socket
    /\ ~handshake_done_

\* This step is an iteration of the handshake loop.
HandshakeIterates == tlsPc = "handshake" /\ HandshakeContinues

Owners(d) == { o \in alive : fd_[o] = d }

\* C26: across any sequence of create, move-construction, move-assignment,
\* close and destruction of Socket, every OS descriptor obtained is released
\* exactly once - never twice and never leaked - and a moved-from object
\* holds the invalid sentinel so that its close/destructor releases nothing:
\* every descriptor that is open is held by exactly one live object, every
\* descriptor a live object holds is open, and no descriptor was closed twice.
C26_ReleasedExactlyOnce ==
    /\ \A d \in os_open : Cardinality(Owners(d)) = 1
    /\ \A o \in alive : fd_[o] # invalid_socket => fd_[o] \in os_open
    /\ \A d \in Descriptors : os_closed[d] <= 1
    /\ \A d \in Descriptors : os_closed[d] = 1 => d \notin os_open

\* The same without the descriptors that have no holder.
NoDoubleRelease ==
    /\ \A d \in os_open : Cardinality(Owners(d)) <= 1
    /\ \A o \in alive : fd_[o] # invalid_socket => fd_[o] \in os_open
    /\ \A d \in Descriptors : os_closed[d] <= 1
    /\ \A d \in Descriptors : os_closed[d] = 1 => d \notin os_open

\* C28: WebSocket frame round trip: for every frame (fin flag, defined
\* opcode, masked flag with any 4-byte mask key, payload in any of the three
\* length encodings), ws_decode_frame(ws_encode_frame(f)) has the same fin,
\* opcode, masked flag and payload as f, and an unmasked frame with payload
\* length L < 126 encodes to exactly 2 + L bytes.
C28_FrameRoundTrip ==
    /\ ws_decoded # <<>> =>
          /\ ws_decoded[1].fin = ws_frame.fin
          /\ ws_decoded[1].opcode = ws_frame.opcode
          /\ ws_decoded[1].masked = ws_frame.masked
          /\ ws_decoded[1].payload = ws_frame.payload
    /\ ws_wire # <<>> /\ ~ws_frame.masked /\ Len(ws_frame.payload) < 126 =>
          Len(ws_wire) = 2 + Len(ws_frame.payload)

\* A masked frame whose payload needs an extended length was encoded and
\* decoded.
C28_Witness ==
    /\ ws_decoded # <<>>
    /\ ws_frame.masked
    /\ ws_frame.mask_key # <<0, 0, 0, 0>>
    /\ Len(ws_frame.payload) = ExtendedLength16
    /\ ws_wire[2] = 128 + ExtendedLength16
    /\ ws_decoded[1].payload = ws_frame.payload

\* C29: HttpHeaders is an upsert map keyed by case-insensitive header name:
\* after any sequence of set calls there is at most one entry for the names
\* that differ in letter case only, and has and get, called with any letter
\* casing of a name that was set, return true and the value most recently set
\* for that name.
C29_CaseInsensitiveUpsert ==
    /\ \A k, m \in 1..Len(entries_) :
          entries_[k].key \in Casings(entries_[m].key) => k = m
    /\ \A c \in DOMAIN lastSet : \A probe \in c :
          /\ HttpHeaders_has(entries_, probe)
          /\ HttpHeaders_get(entries_, probe) = lastSet[c].value

\* A name was set again in another letter casing and with another value; the
\* one entry keeps the first call's key, a second name sits beside it, and a
\* third casing reads the new value.
C29_Witness ==
    /\ Len(entries_) = MaxEntries
    /\ \E c \in DOMAIN lastSet : \E probe \in c :
          /\ entries_[1].key \in c
          /\ lastSet[c].key # entries_[1].key
          /\ probe \notin {entries_[1].key, lastSet[c].key}
          /\ lastSet[c].value = "gzip"
          /\ HttpHeaders_get(entries_, probe) = "gzip"
          /\ ~HttpHeaders_has(<<entries_[1]>>, entries_[2].key)

\* C37: send reports success (returns data.size()) only if the transport
\* accepted the whole framed record of header, plaintext and trailer bytes:
\* when the raw send takes fewer bytes than the record has, send does not
\* report the plaintext as sent.
C37_SuccessMeansWholeRecord ==
    tlsCall.op = "send" /\ tlsCall.established /\ tlsCall.ret = Len(tlsCall.data) =>
        tlsCall.rawSends = 1 /\ tlsCall.raw = Len(tlsCall.wire)

\* The bytes a recv call delivered to its caller.
Delivered(call) == IF call.ret > 0 THEN SubSeq(call.buffer, 1, call.ret) ELSE <<>>

\* The plaintext a recv call's provider produced and the call did not deliver.
Undelivered(call) ==
    IF call.op = "recv" /\ call.established /\ call.hasPlain /\ call.ret >= 0
    THEN SubSeq(call.plain, call.ret + 1, Len(call.plain))
    ELSE <<>>

\* C38: no decrypted byte is lost by recv: the bytes delivered over a sequence
\* of recv calls are the plaintext of the records consumed, also when a
\* record's plaintext is longer than the caller's buffer; the remainder is
\* delivered by the later recv calls.  Stated for two recv calls in a row: the
\* second delivers the remainder of the first, as far as its buffer has room,
\* before anything else.
C38_NoPlaintextLost ==
    [][tlsCall'.op = "recv" /\ tlsCall' # tlsCall /\ Undelivered(tlsCall) # <<>> =>
          LET rest == Undelivered(tlsCall)
              n == IF Len(rest) < tlsCall'.cap THEN Len(rest) ELSE tlsCall'.cap
          IN  /\ tlsCall'.ret >= n
              /\ SubSeq(tlsCall'.buffer, 1, n) = SubSeq(rest, 1, n)]_vars

\* recv delivers the whole plaintext when the caller's buffer has room for it.
DeliveredWhenRoom ==
    tlsCall.op = "recv" /\ tlsCall.established /\ tlsCall.hasPlain
        /\ Len(tlsCall.plain) <= tlsCall.cap =>
            Delivered(tlsCall) = tlsCall.plain

\* A step of run_once itself: its entry with the poll, a step of its dispatch
\* loop while no user callback is running, its return, or the return of a
\* callback into it.
RunOnceOwnStep ==
    \/ EntersRunOnce
    \/ pc # "idle" /\ stack = <<>>
    \/ pc # "idle" /\ Len(stack') < Len(stack)

\* C33: run_once itself never adds, removes or alters a registration: a
\* registration whose descriptor was not reported ready in a cycle stays
\* installed with the same interest and callback, every installed
\* registration is polled by the next run_once with its interest, and in a
\* cycle in which its descriptor is reported ready its callback has fired when
\* the dispatch loop ends.
C33_NotReadyIsRetried ==
    [][/\ RunOnceOwnStep => registrations_' = registrations_
       /\ EntersRunOnce /\ registrations_ # <<>> =>
             /\ lastPoll' = "waited"
             /\ Len(poll_entries_') = Len(registrations_)
             /\ \A k \in 1..Len(registrations_) :
                   /\ poll_entries_'[k].fd = registrations_[k].fd
                   /\ poll_entries_'[k].requested = registrations_[k].interest
       /\ EntersRunOnce /\ pc' = "dispatch" => snapshot' = registrations_
       /\ pc = "dispatch" /\ pc' = "returning" =>
             \A k \in 1..Len(snapshot) :
                 IF poll_entries_[k].returned = None
                 THEN snapshot[k].callback.id \notin FiredIds
                 ELSE snapshot[k].callback.kind # "null" =>
                          snapshot[k].callback.id \in FiredIds]_vars

\* A cycle ends in which the first registration was not reported ready and is
\* installed as it was, while the callback of the second ran and replaced its
\* own registration.
C33_Witness ==
    /\ pc = "returning"
    /\ Len(snapshot) = 2 /\ Len(registrations_) = 2
    /\ poll_entries_[1].returned = None
    /\ poll_entries_[2].returned # None
    /\ registrations_[1] = snapshot[1]
    /\ registrations_[2] # snapshot[2]
    /\ FiredIds = {snapshot[2].callback.id}

\* This step is the return of the user callback a fired one-shot lambda had
\* called from the dispatch loop.
OneShotCallbackReturns ==
    /\ Len(stack) = 1 /\ stack' = <<>>
    /\ stack[1].via = "dispatch"
    /\ stack[1].kind \in OneShotKinds

\* C34: when the user callback of a one-shot operation (async_recv,
\* async_send, async_connect) issues a new async operation on the same socket
\* from inside the callback, the new registration is still installed when the
\* callback returns and is polled by the next run_once: the one-shot's removal
\* of itself happens before the user callback, so that whatever is installed
\* for the socket when the callback returns was issued inside it, and the
\* return removes nothing.
C34_ReArmSurvives ==
    [][/\ OneShotCallbackReturns =>
             /\ registrations_' = registrations_
             /\ \A k \in 1..Len(registrations_) :
                   registrations_[k].fd = stack[1].fd =>
                       registrations_[k].callback.id > stack[1].id
       /\ EntersRunOnce =>
             \A k \in 1..Len(registrations_) : \E m \in 1..Len(poll_entries_') :
                 /\ poll_entries_'[m].fd = registrations_[k].fd
                 /\ poll_entries_'[m].requested = registrations_[k].interest]_vars

\* A cycle ends in which one one-shot fired; its user callback has returned
\* and the operation it issued on the same socket is installed.
C34_Witness ==
    /\ pc = "returning" /\ stack = <<>>
    /\ Len(fired) = 1
    /\ CopiesIn(fired[1].id, calls) = 1
    /\ \E k \in 1..Len(registrations_) :
          /\ registrations_[k].fd = fired[1].fd
          /\ registrations_[k].callback.id >= cycleFirstId
          /\ registrations_[k].callback.kind \in OneShotKinds

\* C35: a firing one-shot operation removes only its own registration: when
\* another callback of the same dispatch cycle has replaced the registration
\* of the socket before the one-shot fires, the new operation's registration
\* is still installed after the stale one-shot has fired.
C35_RemovesOnlyOwn ==
    [][Invokes /\ Invoked.via = "dispatch" /\ Invoked.kind \in {"send", "recv"} =>
          \A k \in 1..Len(registrations_) :
              registrations_[k].callback.id # Invoked.id =>
                  \E m \in 1..Len(registrations_') :
                      registrations_'[m] = registrations_[k]]_vars

\* C36: after AsyncSocket::close() on a socket that has a pending async
\* operation, the EventLoop holds no registration for the closed descriptor
\* (so that run() returns once every other registration has completed).
C36_CloseUnregisters ==
    [][\A fd \in closed_fds' \ closed_fds : fd \notin RegFds(registrations_')]_vars

\* The registration of a closed descriptor leaves the loop only by being
\* dispatched in the cycle whose poll came before the close; every poll after
\* the close reports nothing for it, and run() does not return while it is
\* there and stop() has not been called.
ClosedStaysRegistered ==
    [][/\ \A fd \in closed_fds \cap RegFds(registrations_) :
             \/ fd \in RegFds(registrations_')
             \/ /\ pc = "dispatch"
                /\ \E k \in 1..Len(poll_entries_) :
                      poll_entries_[k].fd = fd /\ poll_entries_[k].returned # None
       /\ EntersRunOnce =>
             \A k \in 1..Len(poll_entries_') :
                 poll_entries_'[k].fd \in closed_fds => poll_entries_'[k].returned = None
       /\ inRun /\ ~inRun' => running_ = FALSE \/ closed_fds \cap RegFds(registrations_) = {}]_vars

LoopIteration ==
    tlsPc = "handshake" /\ tlsPc' = "handshake" /\ hs_delivered' > hs_delivered

\* The bytes of the peer's stream from offset a up to offset b, as a buffer.
StreamSlice(a, b) == IF b > a THEN <<[from |-> a, len |-> b - a]>> ELSE <<>>

\* C32: after each handshake-loop iteration the accumulation buffer is exactly
\* the trailing extra slice when the provider reports extra input; empty when
\* the provider consumed everything and did not report IncompleteMessage; and
\* all bytes accumulated so far, unchanged, when the provider reports
\* IncompleteMessage without extra.  The buffer is recv_buf[0, total_recv);
\* the bytes given to the provider are the buffer before the iteration
\* followed by the bytes of the raw recv.
C32_BufferAfterIteration ==
    [][LoopIteration =>
          LET received == hs_delivered' - hs_delivered
              given == StreamSlice(hs_delivered - total_recv, hs_delivered')
              out == Provider(hs_peer, hs_consumed, total_recv + received)
          IN  /\ recv_buf = StreamSlice(hs_delivered - total_recv, hs_delivered)
              /\ out.extra > 0 =>
                    /\ total_recv' = out.extra
                    /\ recv_buf' = StreamSlice(hs_delivered' - out.extra, hs_delivered')
              /\ out.extra = 0 /\ out.status # "IncompleteMessage" =>
                    total_recv' = 0 /\ recv_buf' = <<>>
              /\ out.extra = 0 /\ out.status = "IncompleteMessage" =>
                    total_recv' = total_recv + received /\ recv_buf' = given]_vars

\* The loop stands after an iteration in which a one-message-per-call
\* provider was given a whole message and the first half of the next: the
\* buffer holds that half, the bytes from the end of the first message.
C32_Witness ==
    /\ tlsPc = "handshake" /\ ~hs_peer.greedy
    /\ hs_consumed = 1 /\ hsStatus = "ContinueNeeded"
    /\ hs_delivered = HsMessageSize + HsMessageSize \div 2
    /\ total_recv = HsMessageSize \div 2
    /\ recv_buf = <<[from |-> HsMessageSize, len |-> HsMessageSize \div 2]>>

C39_TokenFailureNotEstablished ==
    [][tlsPc = "handshake" /\ hs_token_failed /\ tlsPc' = "idle" => ~handshake_done_']_vars
====
